---------------------------- MODULE Spec2Model ----------------------------
(***************************************************************************)
(* Usage-pattern detection and workload classification of the ML sidecar   *)
(* (src/ml-sidecar/app/classifier/workload.py and patterns.py).            *)
(*                                                                         *)
(* Numbers.  The program computes on Python floats.  The model computes on *)
(* exact rationals <<num, den>> (den > 0, lowest terms); floating-point    *)
(* rounding is not modelled.  The two differ only where a computed value   *)
(* equals a threshold exactly: the float sum 0.2 + 0.1 is above 0.3, the   *)
(* exact sum is not.  A standard deviation is carried as its square (the   *)
(* variance), and every comparison the code makes on a standard deviation  *)
(* is made on the squares.                                                 *)
(*                                                                         *)
(* Time.  A timestamp is a number of minutes since a Monday 00:00, so      *)
(* timestamp.hour is (t \div 60) % 24, timestamp.weekday() is              *)
(* (t \div 1440) % 7 and timestamp.date() is t \div 1440.                  *)
(***************************************************************************)
EXTENDS Integers, Sequences, FiniteSets, TLC

VARIABLES
    metrics,        \* the CloudWatchMetrics snapshot handed to classify / analyze
    parts,          \* the sub-analysis records handed to _determine_primary_pattern
    classifier,     \* the WorkloadClassifier instance: its threshold attributes
    detector,       \* the PatternDetector instance: its threshold attributes
    result,         \* what classify returned last (None before the first call)
    analysis,       \* what analyze returned last (None before the first call)
    primary,        \* what _determine_primary_pattern returned last
    raised,         \* whether the last call raised an exception
    config,         \* the config dict the instances are built with
    now,            \* the wall clock of the host, in minutes
    others,         \* the configs of the other instances constructed meanwhile
    first,          \* per operation, the first call made on an input and its outcome
    batches,        \* the classify_workloads calls in progress: list, instance, results
    args,           \* the arguments of a direct call of a helper method
    returned        \* what the helper method returned (None before the call)

vars ==
    <<metrics, parts, classifier, detector, result, analysis, primary, raised, config,
      now, others, first, batches, args, returned>>

\* what the calls of classify, analyze and _determine_primary_pattern leave alone
helper_vars == <<batches, args, returned>>

NoHelperCall ==
    /\ batches = <<>>
    /\ args = <<>>
    /\ returned = <<>>

-----------------------------------------------------------------------------
(* Exact rational arithmetic.                                              *)

Abs(x) == IF x < 0 THEN -x ELSE x

RECURSIVE GCD(_, _)
GCD(a, b) == IF b = 0 THEN a ELSE GCD(b, a % b)

Rat(n, d) ==
    LET g == GCD(Abs(n), Abs(d))
        s == IF d < 0 THEN -1 ELSE 1
    IN  <<s * (n \div g), s * (d \div g)>>

I(k) == <<k, 1>>

RAdd(a, b) ==
    LET g == GCD(a[2], b[2])
    IN  Rat(a[1] * (b[2] \div g) + b[1] * (a[2] \div g), (a[2] \div g) * b[2])

RNeg(a) == <<-a[1], a[2]>>

RSub(a, b) == RAdd(a, RNeg(b))

RMul(a, b) ==
    LET g1 == GCD(Abs(a[1]), b[2])
        g2 == GCD(Abs(b[1]), a[2])
    IN  Rat((a[1] \div g1) * (b[1] \div g2), (a[2] \div g2) * (b[2] \div g1))

\* a / b for b # 0
RDiv(a, b) == RMul(a, Rat(b[2], b[1]))

\* a/b < c/d for a, c >= 0 and b, d > 0, by the continued-fraction expansion
\* (no product is formed, so no intermediate value outgrows its operands)
RECURSIVE FracLess(_, _, _, _)
FracLess(a, b, c, d) ==
    LET qa == a \div b
        qc == c \div d
        ra == a % b
        rc == c % d
    IN  IF qa # qc THEN qa < qc
        ELSE IF rc = 0 THEN FALSE
        ELSE IF ra = 0 THEN TRUE
        ELSE FracLess(d, rc, b, ra)

RLt(a, b) ==
    IF a[1] < 0
    THEN IF b[1] < 0 THEN FracLess(-b[1], b[2], -a[1], a[2]) ELSE TRUE
    ELSE IF b[1] < 0 THEN FALSE ELSE FracLess(a[1], a[2], b[1], b[2])

RLe(a, b) == ~RLt(b, a)
RGt(a, b) == RLt(b, a)
RGe(a, b) == ~RLt(a, b)

\* Python's min(a, b) and max(a, b): the first argument wins a tie
RMin(a, b) == IF RLt(b, a) THEN b ELSE a
RMax(a, b) == IF RLt(a, b) THEN b ELSE a

RAbs(a) == <<Abs(a[1]), a[2]>>


-----------------------------------------------------------------------------
(* Sequences of numbers.  TLC evaluates a recursion on its own stack, so a  *)
(* sum over a series is split in halves rather than taken left to right.    *)

RECURSIVE SumRange(_, _, _)
SumRange(s, lo, hi) ==
    IF lo > hi THEN 0
    ELSE IF lo = hi THEN s[lo]
    ELSE LET m == (lo + hi) \div 2 IN SumRange(s, lo, m) + SumRange(s, m + 1, hi)

\* name = value, then the expression that follows: In(value).  A value that is
\* used more than once is bound this way, as a local variable of the code is.
Let(value, In(_)) == In(value)

\* sum(values)
Sum(s) == SumRange(s, 1, Len(s))

RECURSIVE RSumRange(_, _, _)
RSumRange(s, lo, hi) ==
    IF lo > hi THEN I(0)
    ELSE IF lo = hi THEN s[lo]
    ELSE LET m == (lo + hi) \div 2 IN RAdd(RSumRange(s, lo, m), RSumRange(s, m + 1, hi))

RSum(s) == RSumRange(s, 1, Len(s))

\* max(values), min(values) of a non-empty list of integers
Max(s) == CHOOSE v \in {s[i] : i \in 1..Len(s)} : \A i \in 1..Len(s) : s[i] <= v
Min(s) == CHOOSE v \in {s[i] : i \in 1..Len(s)} : \A i \in 1..Len(s) : s[i] >= v

\* statistics.mean(values) of a non-empty list of integers
mean(s) == Rat(Sum(s), Len(s))

\* statistics.mean(values) of a non-empty list of rationals
rmean(s) == RDiv(RSum(s), I(Len(s)))

\* statistics.stdev(values) ** 2 for two or more integers: the sample variance
\* sum((x - mean)^2) / (n - 1) = (n * sum(x^2) - sum(x)^2) / (n * (n - 1))
variance(s) ==
    LET n  == Len(s)
        S1 == Sum(s)
        S2 == Sum([i \in 1..n |-> s[i] * s[i]])
    IN  Rat(n * S2 - S1 * S1, n * (n - 1))

\* sorted(values)[k] for 0 <= k < len(values): the value with at most k values
\* strictly below it and more than k values at or below it
SortedAt(s, k) ==
    CHOOSE v \in {s[i] : i \in 1..Len(s)} :
        /\ Cardinality({i \in 1..Len(s) : s[i] < v}) <= k
        /\ Cardinality({i \in 1..Len(s) : s[i] <= v}) > k

\* [p.value for p in series]
ValuesOf(series) == [i \in 1..Len(series) |-> series[i].value]

\* dict.get(key, default)
get(stats, key, default) == IF key \in DOMAIN stats THEN stats[key] ELSE default

-----------------------------------------------------------------------------
(* workload.py: WorkloadClassifier                                         *)

LAMBDA_CANDIDATE  == "lambda_candidate"
FARGATE_CANDIDATE == "fargate_candidate"
SPOT_CANDIDATE    == "spot_candidate"
KEEP_EC2          == "keep_ec2"

WorkloadClassification == {LAMBDA_CANDIDATE, FARGATE_CANDIDATE, SPOT_CANDIDATE, KEEP_EC2}

\* class attributes of WorkloadClassifier
LAMBDA_MAX_AVG_CPU == 20
LAMBDA_MIN_IDLE_PERCENT == 70
LAMBDA_MIN_BURST_RATIO == 3
FARGATE_MIN_AVG_CPU == 5
FARGATE_MAX_AVG_CPU == 80
FARGATE_MAX_CPU_STDDEV == 25
FARGATE_MIN_UPTIME_PERCENT == 80

\* WorkloadClassifier(config): the instance attributes after _apply_config_overrides
WorkloadClassifier_init(cfg) ==
    [LAMBDA_MAX_AVG_CPU |->
        IF "lambda_max_avg_cpu" \in DOMAIN cfg
        THEN cfg["lambda_max_avg_cpu"] ELSE LAMBDA_MAX_AVG_CPU,
     FARGATE_MAX_CPU_STDDEV |->
        IF "fargate_max_cpu_stddev" \in DOMAIN cfg
        THEN cfg["fargate_max_cpu_stddev"] ELSE FARGATE_MAX_CPU_STDDEV]

\* the order statistic just below the rank, without the interpolation
percentile_without_interpolation(values, percentile) ==
    IF values = <<>> THEN I(0)
    ELSE I(SortedAt(values, ((Len(values) - 1) * percentile) \div 100))

WorkloadClassifier_percentile(values, percentile) ==
    IF values = <<>> THEN I(0)
    ELSE LET n      == Len(values)
             index  == Rat((n - 1) * percentile, 100)
             lower  == ((n - 1) * percentile) \div 100
             upper  == lower + 1
             weight == RSub(index, I(lower))
         IN  IF upper >= n THEN I(SortedAt(values, n - 1))
             ELSE RAdd(RMul(I(SortedAt(values, lower)), RSub(I(1), weight)),
                       RMul(I(SortedAt(values, upper)), weight))

\* the share of the values below 5, in percent
cpu_idle_percent(cpu_values) ==
    RMul(Rat(Cardinality({i \in 1..Len(cpu_values) : cpu_values[i] < 5}),
             Len(cpu_values)), I(100))

\* the denominator of burst_ratio and variability_score
RatioDenominator(stats) == RMax(get(stats, "cpu_avg", I(1)), Rat(1, 10))

\* "cpu_stddev" and "memory_stddev" hold the variance (the square of the code's
\* value).  "variability_score" holds the pair <<variance, max(cpu_avg, 0.1)^2>>,
\* whose quotient is the square of the code's value.
_compute_statistics(m) ==
    LET cpu_values == ValuesOf(m.cpu_utilization)
        mem_values == ValuesOf(m.memory_utilization)
        net_in     == ValuesOf(m.network_in)
        net_out    == ValuesOf(m.network_out)
        disk_read  == ValuesOf(m.disk_read_ops)
        disk_write == ValuesOf(m.disk_write_ops)
        cpu ==
            IF cpu_values # <<>>
            THEN [cpu_avg |-> mean(cpu_values),
                  cpu_max |-> I(Max(cpu_values)),
                  cpu_min |-> I(Min(cpu_values)),
                  cpu_stddev |-> IF Len(cpu_values) > 1 THEN variance(cpu_values) ELSE I(0),
                  cpu_p95 |-> WorkloadClassifier_percentile(cpu_values, 95),
                  cpu_p50 |-> WorkloadClassifier_percentile(cpu_values, 50),
                  cpu_idle_percent |-> cpu_idle_percent(cpu_values)]
            ELSE <<>>
        mem ==
            IF mem_values # <<>>
            THEN [memory_avg |-> mean(mem_values),
                  memory_max |-> I(Max(mem_values)),
                  memory_stddev |-> IF Len(mem_values) > 1 THEN variance(mem_values) ELSE I(0)]
            ELSE <<>>
        nin ==
            IF net_in # <<>>
            THEN [network_in_avg |-> mean(net_in), network_in_max |-> I(Max(net_in))]
            ELSE <<>>
        nout ==
            IF net_out # <<>>
            THEN [network_out_avg |-> mean(net_out), network_out_max |-> I(Max(net_out))]
            ELSE <<>>
        dr ==
            IF disk_read # <<>> THEN [disk_read_ops_avg |-> mean(disk_read)] ELSE <<>>
        dw ==
            IF disk_write # <<>>
            THEN [disk_write_ops_avg |-> mean(disk_write),
                  disk_write_ops_max |-> I(Max(disk_write))]
            ELSE <<>>
    IN  Let(cpu @@ mem @@ nin @@ nout @@ dr @@ dw, LAMBDA stats :
        Let(RatioDenominator(stats), LAMBDA floor :
            stats @@
            [burst_ratio |-> RDiv(get(stats, "cpu_max", I(0)), floor),
             variability_score |-> <<get(stats, "cpu_stddev", I(0)), RMul(floor, floor)>>]))

\* Comparisons of a standard deviation, given by its variance, with a number
StdLe(var, t) == t >= 0 /\ RLe(var, I(t * t))
StdLt(var, t) == t > 0 /\ RLt(var, I(t * t))
StdGt(var, t) == t < 0 \/ RGt(var, I(t * t))

\* [tag for (condition, tag) in items if condition]
Collect(items) ==
    LET kept == SelectSeq(items, LAMBDA x : x[1])
    IN  [i \in 1..Len(kept) |-> kept[i][2]]

\* score += amount, when the condition holds
When(condition, amount) == IF condition THEN amount ELSE I(0)

_score_lambda_candidate(self, m, stats) ==
    LET cpu_avg        == get(stats, "cpu_avg", I(100))
        idle_pct       == get(stats, "cpu_idle_percent", I(0))
        burst_ratio    == get(stats, "burst_ratio", I(0))
        disk_write_avg == get(stats, "disk_write_ops_avg", I(0))
        memory_avg     == get(stats, "memory_avg", I(0))
        c1 == RLe(cpu_avg, I(self.LAMBDA_MAX_AVG_CPU))
        c2 == RGe(idle_pct, I(LAMBDA_MIN_IDLE_PERCENT))
        c3 == RGe(burst_ratio, I(LAMBDA_MIN_BURST_RATIO))
        c4 == RLt(disk_write_avg, I(100))
        c5 == m.has_persistent_storage
        c6 == m.in_auto_scaling_group
        c7 == RGt(memory_avg, I(80))
        score ==
            RSub(RSub(RSub(RAdd(RAdd(RAdd(RAdd(I(0),
                When(c1, Rat(25, 100))),
                When(c2, Rat(25, 100))),
                When(c3, Rat(20, 100))),
                When(c4, Rat(15, 100))),
                When(c5, Rat(20, 100))),
                When(c6, Rat(10, 100))),
                When(c7, Rat(15, 100)))
    IN  [score |-> RMax(score, I(0)),
         reasons |-> Collect(<< <<c1, "low average cpu">>, <<c2, "high idle time">>,
                                <<c3, "high burst ratio">>, <<c4, "low disk writes">>,
                                <<c5, "persistent storage">>, <<c6, "auto scaling group">>,
                                <<c7, "high memory">> >>)]

_score_fargate_candidate(self, m, stats) ==
    LET cpu_avg        == get(stats, "cpu_avg", I(0))
        cpu_stddev     == get(stats, "cpu_stddev", I(100 * 100))
        idle_pct       == get(stats, "cpu_idle_percent", I(100))
        uptime_pct     == RSub(I(100), idle_pct)
        memory_stddev  == get(stats, "memory_stddev", I(100 * 100))
        net_in_avg     == get(stats, "network_in_avg", I(0))
        net_out_avg    == get(stats, "network_out_avg", I(0))
        disk_write_max == get(stats, "disk_write_ops_max", I(0))
        c1 == RLe(I(FARGATE_MIN_AVG_CPU), cpu_avg) /\ RLe(cpu_avg, I(FARGATE_MAX_AVG_CPU))
        c2 == StdLe(cpu_stddev, self.FARGATE_MAX_CPU_STDDEV)
        c3 == RGe(uptime_pct, I(FARGATE_MIN_UPTIME_PERCENT))
        c4 == StdLt(memory_stddev, 15)
        c5 == RGt(net_in_avg, I(1000)) \/ RGt(net_out_avg, I(1000))
        c6 == m.in_auto_scaling_group
        c7 == RGt(disk_write_max, I(1000))
        score ==
            RSub(RAdd(RAdd(RAdd(RAdd(RAdd(RAdd(I(0),
                When(c1, Rat(20, 100))),
                When(c2, Rat(20, 100))),
                When(c3, Rat(20, 100))),
                When(c4, Rat(15, 100))),
                When(c5, Rat(10, 100))),
                When(c6, Rat(10, 100))),
                When(c7, Rat(15, 100)))
    IN  [score |-> RMax(score, I(0)),
         reasons |-> Collect(<< <<c1, "consistent cpu">>, <<c2, "low cpu variance">>,
                                <<c3, "high uptime">>, <<c4, "stable memory">>,
                                <<c5, "network activity">>, <<c6, "auto scaling group">>,
                                <<c7, "high disk io">> >>)]

\* The Pearson coefficient is num / sqrt(dx * dy), with the three sums scaled
\* by n: num = n*sum(x*y) - sum(x)*sum(y), dx = n*sum(x^2) - sum(x)^2, dy alike.
\* The code's 0.0 (unequal or empty lists, a zero denominator) is num = 0.
_simple_correlation(x, y) ==
    IF Len(x) # Len(y) \/ Len(x) = 0 THEN [num |-> 0, dx |-> 1, dy |-> 1]
    ELSE LET n  == Len(x)
             sx == Sum(x)
             sy == Sum(y)
             dx == n * Sum([i \in 1..n |-> x[i] * x[i]]) - sx * sx
             dy == n * Sum([i \in 1..n |-> y[i] * y[i]]) - sy * sy
         IN  IF dx = 0 \/ dy = 0 THEN [num |-> 0, dx |-> 1, dy |-> 1]
             ELSE [num |-> n * Sum([i \in 1..n |-> x[i] * y[i]]) - sx * sy,
                   dx |-> dx, dy |-> dy]

\* corr > 0.7: num > 0 and 100 * num^2 > 49 * dx * dy
CorrelationAbove07(corr) ==
    /\ corr.num > 0
    /\ FracLess(7 * corr.dy, 10 * corr.num, 10 * corr.num, 7 * corr.dx)

\* values[start:end], 0-based and end-exclusive as in Python
Slice(values, start, end) == SubSeq(values, start + 1, end)

\* min_periods is always left at its default of 2, so range(1, min_periods) is
\* the single index 1 and the mean of the correlations is the one correlation.
PeriodConfirmed(values, period) ==
    /\ ~(Len(values) < period * 2)
    /\ ~(2 * period > Len(values))
    /\ CorrelationAbove07(_simple_correlation(Slice(values, 0, period),
                                              Slice(values, period, 2 * period)))

_detect_periodic_pattern(values) ==
    IF Len(values) < 48 THEN FALSE
    ELSE PeriodConfirmed(values, 24) \/ PeriodConfirmed(values, 168)

\* variability_score > 1.0, on the squares
VariabilityAbove1(stats) ==
    LET v == get(stats, "variability_score", <<I(0), I(1)>>)
    IN  RGt(v[1], v[2])

_score_spot_candidate(self, m, stats) ==
    LET burst_ratio == get(stats, "burst_ratio", I(0))
        cpu_avg     == get(stats, "cpu_avg", I(0))
        cpu_p95     == get(stats, "cpu_p95", I(0))
        net_out_avg == get(stats, "network_out_avg", I(0))
        c1 == VariabilityAbove1(stats)
        c2 == _detect_periodic_pattern(ValuesOf(m.cpu_utilization))
        c3 == RGt(burst_ratio, I(2)) /\ RGt(cpu_avg, I(self.LAMBDA_MAX_AVG_CPU))
        c4 == RGt(cpu_p95, I(70))
        c5 == RLt(net_out_avg, I(10000))
        c6 == m.instance_age_days > 30
        c7 == m.has_elastic_ip
        score ==
            RSub(RAdd(RAdd(RAdd(RAdd(RAdd(RAdd(I(0),
                When(c1, Rat(20, 100))),
                When(c2, Rat(20, 100))),
                When(c3, Rat(15, 100))),
                When(c4, Rat(15, 100))),
                When(c5, Rat(10, 100))),
                When(c6, Rat(10, 100))),
                When(c7, Rat(20, 100)))
    IN  [score |-> RMax(score, I(0)),
         reasons |-> Collect(<< <<c1, "high variability">>, <<c2, "periodic pattern">>,
                                <<c3, "bursty but sustained">>, <<c4, "compute intensive">>,
                                <<c5, "low network egress">>, <<c6, "long running">>,
                                <<c7, "elastic ip">> >>)]

\* variant for sensitivity checks: the keep_ec2 score without its cap
_score_keep_ec2_uncapped(self, m, stats) ==
    LET cpu_avg        == get(stats, "cpu_avg", I(0))
        cpu_stddev     == get(stats, "cpu_stddev", I(0))
        memory_avg     == get(stats, "memory_avg", I(0))
        disk_read_avg  == get(stats, "disk_read_ops_avg", I(0))
        disk_write_avg == get(stats, "disk_write_ops_avg", I(0))
        c1 == RGt(cpu_avg, I(70)) /\ StdLt(cpu_stddev, 15)
        c2 == RGt(memory_avg, I(70))
        c3 == RGt(disk_read_avg, I(500)) \/ RGt(disk_write_avg, I(500))
        c4 == m.has_elastic_ip
        c5 == m.has_persistent_storage
        score ==
            RAdd(RAdd(RAdd(RAdd(RAdd(Rat(30, 100),
                When(c1, Rat(25, 100))),
                When(c2, Rat(15, 100))),
                When(c3, Rat(15, 100))),
                When(c4, Rat(10, 100))),
                When(c5, Rat(10, 100)))
    IN  [score |-> score,
         reasons |-> Collect(<< <<c1, "high stable cpu">>, <<c2, "high memory">>,
                                <<c3, "disk io">>, <<c4, "elastic ip">>,
                                <<c5, "persistent storage">> >>)]

\* _score_keep_ec2: the base score 0.3 and its bonuses, capped at 1.0
_score_keep_ec2(self, m, stats) ==
    LET cpu_avg        == get(stats, "cpu_avg", I(0))
        cpu_stddev     == get(stats, "cpu_stddev", I(0))
        memory_avg     == get(stats, "memory_avg", I(0))
        disk_read_avg  == get(stats, "disk_read_ops_avg", I(0))
        disk_write_avg == get(stats, "disk_write_ops_avg", I(0))
        c1 == RGt(cpu_avg, I(70)) /\ StdLt(cpu_stddev, 15)
        c2 == RGt(memory_avg, I(70))
        c3 == RGt(disk_read_avg, I(500)) \/ RGt(disk_write_avg, I(500))
        c4 == m.has_elastic_ip
        c5 == m.has_persistent_storage
        score ==
            RAdd(RAdd(RAdd(RAdd(RAdd(Rat(30, 100),
                When(c1, Rat(25, 100))),
                When(c2, Rat(15, 100))),
                When(c3, Rat(15, 100))),
                When(c4, Rat(10, 100))),
                When(c5, Rat(10, 100)))
    IN  [score |-> RMin(score, I(1)),
         reasons |-> Collect(<< <<c1, "high stable cpu">>, <<c2, "high memory">>,
                                <<c3, "disk io">>, <<c4, "elastic ip">>,
                                <<c5, "persistent storage">> >>)]

\* Optional[...] values: None is the empty tuple, a value v is <<v>>
Some(v) == <<v>>

\* variant for sensitivity checks: the variance and memory warnings given whatever
\* candidate wins
_generate_warnings_any_winner(m, stats, classification) ==
    Collect(<<
        <<Len(m.cpu_utilization) < 336, "limited data points">>,
        <<StdGt(get(stats, "cpu_stddev", I(0)), 20), "moderate cpu variance">>,
        <<RGt(get(stats, "memory_avg", I(0)), I(60)),
          "memory may approach lambda limits">>,
        <<classification = SPOT_CANDIDATE /\ m.has_elastic_ip,
          "elastic ip detected">> >>)

_generate_warnings(m, stats, classification) ==
    LET cpu_points == Len(m.cpu_utilization)
        cpu_stddev == get(stats, "cpu_stddev", I(0))
        memory_avg == get(stats, "memory_avg", I(0))
    IN  Collect(<<
            <<cpu_points < 336, "limited data points">>,
            <<classification = FARGATE_CANDIDATE /\ StdGt(cpu_stddev, 20),
              "moderate cpu variance">>,
            <<classification = LAMBDA_CANDIDATE /\ RGt(memory_avg, I(60)),
              "memory may approach lambda limits">>,
            <<classification = SPOT_CANDIDATE /\ m.has_elastic_ip,
              "elastic ip detected">> >>)

\* variant for sensitivity checks: the lambda savings without the scaling and the
\* cap, and a savings figure next to the upsizing advice
_estimate_savings_uncapped(m, stats, classification) ==
    IF classification = LAMBDA_CANDIDATE THEN
        <<Some(get(stats, "cpu_idle_percent", I(0))), Some("Lambda 1024MB")>>
    ELSE IF classification = FARGATE_CANDIDATE THEN
        <<Some(I(25)), Some("Fargate 0.5vCPU / 1GB")>>
    ELSE IF classification = SPOT_CANDIDATE THEN
        <<Some(I(70)), Some("Spot " \o m.instance_type)>>
    ELSE IF RLt(get(stats, "cpu_avg", I(50)), I(20))
    THEN <<Some(I(30)), Some("Downsize " \o m.instance_type)>>
    ELSE IF RGt(get(stats, "cpu_avg", I(50)), I(80))
    THEN <<Some(I(30)), Some("Consider upsizing " \o m.instance_type)>>
    ELSE <<<<>>, <<>>>>

\* the pair (savings, target)
_estimate_savings(m, stats, classification) ==
    IF classification = LAMBDA_CANDIDATE THEN
        LET idle_pct   == get(stats, "cpu_idle_percent", I(0))
            memory_avg == get(stats, "memory_avg", I(50))
        IN  <<Some(RMin(RMul(idle_pct, Rat(8, 10)), I(80))),
              Some(IF RLt(memory_avg, I(30)) THEN "Lambda 512MB"
                   ELSE IF RLt(memory_avg, I(60)) THEN "Lambda 1024MB"
                   ELSE "Lambda 2048MB")>>
    ELSE IF classification = FARGATE_CANDIDATE THEN
        LET cpu_avg == get(stats, "cpu_avg", I(50))
        IN  IF RLt(cpu_avg, I(25)) THEN <<Some(I(40)), Some("Fargate 0.25vCPU / 0.5GB")>>
            ELSE IF RLt(cpu_avg, I(50)) THEN <<Some(I(25)), Some("Fargate 0.5vCPU / 1GB")>>
            ELSE <<Some(I(15)), Some("Fargate 1vCPU / 2GB")>>
    ELSE IF classification = SPOT_CANDIDATE THEN
        <<Some(I(70)), Some("Spot " \o m.instance_type)>>
    ELSE
        LET cpu_avg == get(stats, "cpu_avg", I(50))
        IN  IF RLt(cpu_avg, I(20)) THEN <<Some(I(30)), Some("Downsize " \o m.instance_type)>>
            ELSE IF RGt(cpu_avg, I(80))
            THEN <<<<>>, Some("Consider upsizing " \o m.instance_type)>>
            ELSE <<<<>>, <<>>>>

\* variant for sensitivity checks: the sort without reverse=True
SortByScoreAscending(scores) ==
    LET n == Len(scores)
        place(i) ==
            1 + Cardinality({j \in 1..n : RLt(scores[j].score, scores[i].score)})
              + Cardinality({j \in 1..i - 1 : scores[j].score = scores[i].score})
    IN  [k \in 1..n |-> scores[CHOOSE i \in 1..n : place(i) = k]]

\* variant for sensitivity checks: an ascending sort reversed afterwards, which
\* turns the order of the entries of equal score around
SortByScoreThenReverse(scores) ==
    LET n == Len(scores)
        place(i) ==
            1 + Cardinality({j \in 1..n : RGt(scores[j].score, scores[i].score)})
              + Cardinality({j \in i + 1..n : scores[j].score = scores[i].score})
    IN  [k \in 1..n |-> scores[CHOOSE i \in 1..n : place(i) = k]]

\* scores.sort(key=lambda x: x[1], reverse=True): a stable sort, so entries of
\* equal score keep the order they were listed in
SortByScoreDescending(scores) ==
    LET n == Len(scores)
        place(i) ==
            1 + Cardinality({j \in 1..n : RGt(scores[j].score, scores[i].score)})
              + Cardinality({j \in 1..i - 1 : scores[j].score = scores[i].score})
    IN  [k \in 1..n |-> scores[CHOOSE i \in 1..n : place(i) = k]]

\* the four candidates as classify lists them, with their scores and reasons
CandidateScores(self, m, stats) ==
    LET entry(c, r) == [classification |-> c, score |-> r.score, reasons |-> r.reasons]
    IN  << entry(LAMBDA_CANDIDATE, _score_lambda_candidate(self, m, stats)),
           entry(FARGATE_CANDIDATE, _score_fargate_candidate(self, m, stats)),
           entry(SPOT_CANDIDATE, _score_spot_candidate(self, m, stats)),
           entry(KEEP_EC2, _score_keep_ec2(self, m, stats)) >>

\* variant for sensitivity checks: scores[1:] without the filter on the score
AlternativesUnfiltered(scores) ==
    [i \in 1..Len(scores) - 1 |-> <<scores[i + 1].classification, scores[i + 1].score>>]

\* scores[1:] with a score above 0.3, as (classification, score) pairs
Alternatives(scores) ==
    LET rest == SelectSeq(Tail(scores), LAMBDA x : RGt(x.score, Rat(3, 10)))
    IN  [i \in 1..Len(rest) |-> <<rest[i].classification, rest[i].score>>]

classify(self, m) ==
    Let(_compute_statistics(m), LAMBDA stats :
    Let(SortByScoreDescending(CandidateScores(self, m, stats)), LAMBDA scores :
    Let(scores[1], LAMBDA best :
    Let(_estimate_savings(m, stats, best.classification), LAMBDA st :
        [instance_id |-> m.instance_id,
         classification |-> best.classification,
         confidence |-> RMin(best.score, I(1)),
         reasons |-> best.reasons,
         metrics_summary |-> stats,
         alternative_classifications |-> Alternatives(scores),
         estimated_savings_percent |-> st[1],
         recommended_target |-> st[2],
         warnings |-> _generate_warnings(m, stats, best.classification)]))))

-----------------------------------------------------------------------------
(* patterns.py: PatternDetector                                            *)

IDLE_DOMINANT == "idle_dominant"
STEADY_STATE  == "steady_state"
BURSTY        == "bursty"
DIURNAL       == "diurnal"
WEEKLY        == "weekly"
BATCH         == "batch"
GROWING       == "growing"
DECLINING     == "declining"
ERRATIC       == "erratic"

\* class PatternType, in the order its members are declared
PatternType ==
    <<IDLE_DOMINANT, STEADY_STATE, BURSTY, DIURNAL, WEEKLY, BATCH, GROWING, DECLINING,
      ERRATIC>>

\* variant for sensitivity checks: a daily rhythm counted from a ratio of 2 only
DiurnalSignificanceOfTwo == Rat(2, 1)

\* class attributes of PatternDetector
IDLE_THRESHOLD_CPU == 5
BURST_THRESHOLD_MULTIPLIER == 2
MIN_BURST_DURATION_MINUTES == 5
DIURNAL_SIGNIFICANCE == Rat(3, 2)
MEMORY_LEAK_THRESHOLD == 1

\* PatternDetector(config): the instance attributes after _apply_config
PatternDetector_init(cfg) ==
    [IDLE_THRESHOLD_CPU |->
        IF "idle_threshold" \in DOMAIN cfg
        THEN cfg["idle_threshold"] ELSE IDLE_THRESHOLD_CPU,
     BURST_THRESHOLD_MULTIPLIER |->
        IF "burst_multiplier" \in DOMAIN cfg
        THEN cfg["burst_multiplier"] ELSE BURST_THRESHOLD_MULTIPLIER]

\* timestamp.hour, timestamp.weekday() and timestamp.date()
HourOf(t)    == (t \div 60) % 24
WeekdayOf(t) == (t \div 1440) % 7
DateOf(t)    == t \div 1440

\* the indices 1..n at which the condition holds, ascending
IndicesWhere(n, cond(_)) == SelectSeq([i \in 1..n |-> i], cond)

\* (ScanPeriodsToLast and ScanPeriodsWithoutFinal are variants for sensitivity
\* checks: the first closes every period at the last sample of its run, the second
\* leaves out the period that is still open at the end of the series.)
\* The scans of _analyze_idle_pattern and _analyze_burst_pattern open a period at
\* the first sample of a run of samples inside the band and close it at the first
\* sample after the run, or at the last sample of the series when the run reaches
\* the end.  inside[i] says whether sample i is in the band.  A period is
\* [first |-> index that opened it, close |-> index whose timestamp closes it,
\*  last |-> index of the last sample of the run].
ScanPeriodsWithoutFinal(inside) ==
    LET n      == Len(inside)
        opens  == IndicesWhere(n, LAMBDA i : inside[i] /\ (i = 1 \/ ~inside[i - 1]))
        closes == IndicesWhere(n, LAMBDA i : ~inside[i] /\ i > 1 /\ inside[i - 1])
    IN  [k \in 1..Len(closes) |->
            [first |-> opens[k], close |-> closes[k], last |-> closes[k] - 1]]

ScanPeriodsToLast(inside) ==
    LET n      == Len(inside)
        opens  == IndicesWhere(n, LAMBDA i : inside[i] /\ (i = 1 \/ ~inside[i - 1]))
        lasts  == IndicesWhere(n, LAMBDA i : inside[i] /\ (i = n \/ ~inside[i + 1]))
    IN  [k \in 1..Len(opens) |->
            [first |-> opens[k], close |-> lasts[k], last |-> lasts[k]]]

ScanPeriods(inside) ==
    LET n      == Len(inside)
        opens  == IndicesWhere(n, LAMBDA i : inside[i] /\ (i = 1 \/ ~inside[i - 1]))
        closes == IndicesWhere(n, LAMBDA i : ~inside[i] /\ i > 1 /\ inside[i - 1])
    IN  [k \in 1..Len(opens) |->
            IF k <= Len(closes)
            THEN [first |-> opens[k], close |-> closes[k], last |-> closes[k] - 1]
            ELSE [first |-> opens[k], close |-> n, last |-> n]]

\* max of a non-empty list of rationals
RMaxOf(s) == CHOOSE v \in {s[i] : i \in 1..Len(s)} : \A i \in 1..Len(s) : RLe(s[i], v)

\* variant for sensitivity checks: a sample at the threshold counted as idle
IsIdleInclusive(self, value) == value <= self.IDLE_THRESHOLD_CPU

\* point.value < self.IDLE_THRESHOLD_CPU
IsIdle(self, value) == value < self.IDLE_THRESHOLD_CPU

_analyze_idle_pattern(self, series) ==
    IF series = <<>> THEN
        [idle_percent |-> I(0), avg_idle_duration_hours |-> I(0),
         max_idle_duration_hours |-> I(0), idle_periods |-> <<>>,
         is_idle_dominant |-> FALSE]
    ELSE
        Let([i \in 1..Len(series) |-> IsIdle(self, series[i].value)], LAMBDA inside :
        Let(ScanPeriods(inside), LAMBDA periods :
        Let([k \in 1..Len(periods) |->
                <<series[periods[k].first].timestamp,
                  series[periods[k].close].timestamp>>], LAMBDA idle_periods :
        Let([k \in 1..Len(idle_periods) |->
                Rat(idle_periods[k][2] - idle_periods[k][1], 60)], LAMBDA durations :
        Let(RMul(Rat(Cardinality({i \in 1..Len(series) : inside[i]}), Len(series)),
                 I(100)), LAMBDA idle_percent :
            [idle_percent |-> idle_percent,
             avg_idle_duration_hours |->
                IF idle_periods # <<>> THEN rmean(durations) ELSE I(0),
             max_idle_duration_hours |->
                IF idle_periods # <<>> THEN RMaxOf(durations) ELSE I(0),
             idle_periods |-> idle_periods,
             is_idle_dominant |-> RGt(idle_percent, I(70))])))))

PatternDetector_percentile(values, p) ==
    IF values = <<>> THEN I(0)
    ELSE LET n      == Len(values)
             index  == Rat((n - 1) * p, 100)
             lower  == ((n - 1) * p) \div 100
             upper  == lower + 1
             weight == RSub(index, I(lower))
         IN  IF upper >= n THEN I(SortedAt(values, n - 1))
             ELSE RAdd(RMul(I(SortedAt(values, lower)), RSub(I(1), weight)),
                       RMul(I(SortedAt(values, upper)), weight))

\* variant for sensitivity checks: the baseline taken near the top of the values
BurstBaselineP95(values) == PatternDetector_percentile(values, 95)

\* baseline = self._percentile(values, 25)
BurstBaseline(values) == PatternDetector_percentile(values, 25)

\* the denominator of a burst's intensity
IntensityDenominator(baseline) == RMax(baseline, I(1))

_analyze_burst_pattern(self, series) ==
    IF Len(series) < 10 THEN
        [is_bursty |-> FALSE, burst_count |-> 0, avg_burst_duration_minutes |-> I(0),
         avg_burst_intensity |-> I(0), avg_quiet_duration_hours |-> I(0),
         burst_periods |-> <<>>]
    ELSE
        Let(ValuesOf(series), LAMBDA values :
        Let(BurstBaseline(values), LAMBDA baseline :
        Let(RMax(RMul(baseline, I(self.BURST_THRESHOLD_MULTIPLIER)), I(20)),
            LAMBDA burst_threshold :
        Let(ScanPeriods([i \in 1..Len(series) |-> RGt(I(values[i]), burst_threshold)]),
            LAMBDA periods :
        Let(SelectSeq([k \in 1..Len(periods) |->
                        <<series[periods[k].first].timestamp,
                          series[periods[k].close].timestamp,
                          Max(SubSeq(values, periods[k].first, periods[k].last))>>],
                      LAMBDA b : b[2] - b[1] >= MIN_BURST_DURATION_MINUTES),
            LAMBDA burst_periods :
        Let(Len(burst_periods), LAMBDA count :
        Let(IF count > 0
            THEN rmean([k \in 1..count |->
                            RDiv(I(burst_periods[k][3]), IntensityDenominator(baseline))])
            ELSE I(0),
            LAMBDA avg_intensity :
        Let(IF count > 1
            THEN rmean([k \in 1..count - 1 |->
                            Rat(burst_periods[k + 1][1] - burst_periods[k][2], 60)])
            ELSE I(0),
            LAMBDA avg_quiet :
            [is_bursty |-> count >= 3 /\ RGt(avg_intensity, I(2)) /\ RGt(avg_quiet, I(1)),
             burst_count |-> count,
             avg_burst_duration_minutes |->
                IF count > 0
                THEN rmean([k \in 1..count |->
                                I(burst_periods[k][2] - burst_periods[k][1])])
                ELSE I(0),
             avg_burst_intensity |-> avg_intensity,
             avg_quiet_duration_hours |-> avg_quiet,
             burst_periods |-> burst_periods]))))))))

\* max(averages, key=averages.get) and min(...) over a dict with keys lo..hi in
\* ascending insertion order: the first key that holds the extreme value
FirstKeyOfMax(averages, lo, hi) ==
    CHOOSE k \in lo..hi :
        /\ \A j \in lo..hi : RLe(averages[j], averages[k])
        /\ \A j \in lo..k - 1 : RLt(averages[j], averages[k])

\* variant for sensitivity checks: the trough looked up with max instead of min
TroughKeyByMax(averages, lo, hi) ==
    CHOOSE k \in lo..hi :
        /\ \A j \in lo..hi : RLe(averages[j], averages[k])
        /\ \A j \in lo..k - 1 : RLt(averages[j], averages[k])

FirstKeyOfMin(averages, lo, hi) ==
    CHOOSE k \in lo..hi :
        /\ \A j \in lo..hi : RGe(averages[j], averages[k])
        /\ \A j \in lo..k - 1 : RGt(averages[j], averages[k])

\* {key: statistics.mean(values) if values else 0} for the samples grouped by key
BucketAverages(series, lo, hi, KeyOf(_)) ==
    [k \in lo..hi |->
        LET values == ValuesOf(SelectSeq(series, LAMBDA pt : KeyOf(pt.timestamp) = k))
        IN  IF values # <<>> THEN mean(values) ELSE I(0)]

\* variant for sensitivity checks: the trough taken as it is
DiurnalDenominatorUnfloored(trough_value) == trough_value

\* the denominator of the peak-to-trough ratio: max(trough_value, 0.1)
DiurnalDenominator(trough_value) == RMax(trough_value, Rat(1, 10))

_analyze_diurnal_pattern(self, series) ==
    IF Len(series) < 48 THEN
        [has_diurnal_pattern |-> FALSE, peak_hour |-> 0, trough_hour |-> 0,
         peak_to_trough_ratio |-> I(1), hourly_averages |-> <<>>]
    ELSE
        Let(BucketAverages(series, 0, 23, HourOf), LAMBDA hourly_averages :
        Let(FirstKeyOfMax(hourly_averages, 0, 23), LAMBDA peak_hour :
        Let(FirstKeyOfMin(hourly_averages, 0, 23), LAMBDA trough_hour :
        Let(RDiv(hourly_averages[peak_hour],
                 DiurnalDenominator(hourly_averages[trough_hour])), LAMBDA ratio :
            [has_diurnal_pattern |-> RGe(ratio, DIURNAL_SIGNIFICANCE),
             peak_hour |-> peak_hour,
             trough_hour |-> trough_hour,
             peak_to_trough_ratio |-> ratio,
             hourly_averages |-> hourly_averages]))))

\* the denominator of the weekday/weekend difference
WeeklyDenominator(weekday_avg, weekend_avg) == RMax(RMax(weekday_avg, weekend_avg), I(1))

_analyze_weekly_pattern(self, series) ==
    IF Len(series) < 168 THEN
        [has_weekly_pattern |-> FALSE, peak_day |-> 0, trough_day |-> 0,
         weekday_avg |-> I(0), weekend_avg |-> I(0), daily_averages |-> <<>>]
    ELSE
        Let(BucketAverages(series, 0, 6, WeekdayOf), LAMBDA daily_averages :
        Let(rmean([d \in 1..5 |-> daily_averages[d - 1]]), LAMBDA weekday_avg :
        Let(rmean(<<daily_averages[5], daily_averages[6]>>), LAMBDA weekend_avg :
            [has_weekly_pattern |->
                RGt(RDiv(RAbs(RSub(weekday_avg, weekend_avg)),
                         WeeklyDenominator(weekday_avg, weekend_avg)), Rat(3, 10)),
             peak_day |-> FirstKeyOfMax(daily_averages, 0, 6),
             trough_day |-> FirstKeyOfMin(daily_averages, 0, 6),
             weekday_avg |-> weekday_avg,
             weekend_avg |-> weekend_avg,
             daily_averages |-> daily_averages])))

\* [statistics.mean(v) for v in daily_avgs.values()]: one mean per calendar day,
\* the days in the order in which the series first reaches them
daily_means(series) ==
    Let([i \in 1..Len(series) |-> DateOf(series[i].timestamp)], LAMBDA dates :
    Let(IndicesWhere(Len(series), LAMBDA i : \A j \in 1..i - 1 : dates[j] # dates[i]),
        LAMBDA firsts :
        [k \in 1..Len(firsts) |->
            mean(ValuesOf(SelectSeq(series,
                LAMBDA pt : DateOf(pt.timestamp) = dates[firsts[k]])))]))

\* sum((i - x_mean) * (y[i] - y_mean)) and sum((i - x_mean) ** 2) over i in range(n)
RegressionNumerator(y, x_mean, y_mean) ==
    RSum([k \in 1..Len(y) |-> RMul(RSub(I(k - 1), x_mean), RSub(y[k], y_mean))])

RegressionDenominator(n, x_mean) ==
    RSum([k \in 1..n |-> RMul(RSub(I(k - 1), x_mean), RSub(I(k - 1), x_mean))])

\* variant for sensitivity checks: the rise from the first day to the last instead
\* of the slope per day
_detect_memory_leak_total_rise(series) ==
    IF Len(series) < 48 \/ Len(daily_means(series)) < 3 THEN <<>>
    ELSE Let(RSub(daily_means(series)[Len(daily_means(series))], daily_means(series)[1]),
             LAMBDA rise : IF RGt(rise, Rat(1, 2)) THEN Some(rise) ELSE <<>>)

\* Optional[float]: the slope when it is above 0.5
_detect_memory_leak(series) ==
    IF Len(series) < 48 THEN <<>>
    ELSE
        Let(daily_means(series), LAMBDA means :
        Let(Len(means), LAMBDA n :
            IF n < 3 THEN <<>>
            ELSE
                Let(Rat(n - 1, 2), LAMBDA x_mean :
                Let(RegressionDenominator(n, x_mean), LAMBDA denominator :
                    IF denominator = I(0) THEN <<>>
                    ELSE
                        Let(RDiv(RegressionNumerator(means, x_mean, rmean(means)),
                                 denominator), LAMBDA slope :
                            IF RGt(slope, Rat(1, 2)) THEN Some(slope) ELSE <<>>)))))

NoMemoryPattern ==
    [avg_utilization |-> I(0), max_utilization |-> I(0), min_utilization |-> I(0),
     has_memory_leak |-> FALSE, leak_rate_percent_per_day |-> <<>>,
     memory_pressure_events |-> 0, is_memory_stable |-> TRUE]

_analyze_memory_pattern(self, series) ==
    IF series = <<>> THEN NoMemoryPattern
    ELSE
        Let(ValuesOf(series), LAMBDA values :
        Let(_detect_memory_leak(series), LAMBDA leak_rate :
            [avg_utilization |-> mean(values),
             max_utilization |-> I(Max(values)),
             min_utilization |-> I(Min(values)),
             has_memory_leak |->
                leak_rate # <<>> /\ RGt(leak_rate[1], I(MEMORY_LEAK_THRESHOLD)),
             leak_rate_percent_per_day |-> leak_rate,
             memory_pressure_events |->
                Cardinality({i \in 1..Len(values) : values[i] > 90}),
             is_memory_stable |->
                StdLt(IF Len(values) > 1 THEN variance(values) ELSE I(0), 10)]))

\* variant for sensitivity checks: a slope of exactly 0.5 either way still stable
TrendDirectionStrict(slope) ==
    IF RLe(RAbs(slope), Rat(1, 2)) THEN "stable"
    ELSE IF RGt(slope, I(0)) THEN "growing" ELSE "declining"

\* if abs(slope) < 0.5: "stable"; elif slope > 0: "growing"; else: "declining"
TrendDirection(slope) ==
    IF RLt(RAbs(slope), Rat(1, 2)) THEN "stable"
    ELSE IF RGt(slope, I(0)) THEN "growing" ELSE "declining"

_analyze_trend(self, series) ==
    IF Len(series) < 48 THEN
        [direction |-> "stable", slope_per_day |-> I(0), r_squared |-> I(0),
         predicted_30_day_value |-> I(0)]
    ELSE
        Let(daily_means(series), LAMBDA y :
        Let(Len(y), LAMBDA n :
            IF n < 3 THEN
                [direction |-> "stable", slope_per_day |-> I(0), r_squared |-> I(0),
                 predicted_30_day_value |-> IF y # <<>> THEN y[n] ELSE I(0)]
            ELSE
                Let(mean([k \in 1..n |-> k - 1]), LAMBDA x_mean :
                Let(rmean(y), LAMBDA y_mean :
                Let(RegressionDenominator(n, x_mean), LAMBDA denominator :
                Let(IF denominator = I(0) THEN I(0)
                    ELSE RDiv(RegressionNumerator(y, x_mean, y_mean), denominator),
                    LAMBDA slope :
                Let(RSub(y_mean, RMul(slope, x_mean)), LAMBDA intercept :
                Let([k \in 1..n |-> RSub(y[k], RAdd(RMul(slope, I(k - 1)), intercept))],
                    LAMBDA residuals :
                Let(RSum([k \in 1..n |-> RMul(residuals[k], residuals[k])]),
                    LAMBDA ss_res :
                Let([k \in 1..n |-> RSub(y[k], y_mean)], LAMBDA deviations :
                Let(RSum([k \in 1..n |-> RMul(deviations[k], deviations[k])]),
                    LAMBDA ss_tot :
                    [direction |-> TrendDirection(slope),
                     slope_per_day |-> slope,
                     r_squared |->
                        RMax(I(0), IF RGt(ss_tot, I(0))
                                   THEN RSub(I(1), RDiv(ss_res, ss_tot)) ELSE I(0)),
                     predicted_30_day_value |->
                        RMax(I(0), RMin(I(100),
                                        RAdd(RMul(slope, I(n + 30)), intercept)))]
                    )))))))))))

\* the keys of the scores dict of _determine_primary_pattern, in insertion order
ScoreKeys ==
    <<IDLE_DOMINANT, BURSTY, STEADY_STATE, DIURNAL, WEEKLY, BATCH, GROWING, DECLINING>>

\* the denominator of the weekly score's difference ratio
WeeklyScoreDenominator(weekday_avg) == RMax(weekday_avg, I(1))

\* variant for sensitivity checks: a higher bar for a clear pattern
ErraticBelowHalf == Rat(1, 2)

\* below this best score the pattern is reported as erratic
ErraticBelow == Rat(4, 10)

\* the scores dict of _determine_primary_pattern, as a function on ScoreKeys' entries
PatternScores(idle, burst, diurnal, weekly, trend) ==
    LET bursty ==
            IF burst.is_bursty
            THEN RMin(RAdd(RAdd(Rat(5, 10), RDiv(burst.avg_burst_intensity, I(10))),
                           Rat(burst.burst_count, 50)), Rat(95, 100))
            ELSE I(0)
    IN  [key \in {ScoreKeys[i] : i \in 1..Len(ScoreKeys)} |->
            CASE key = IDLE_DOMINANT ->
                    IF idle.is_idle_dominant
                    THEN RAdd(Rat(8, 10), RDiv(RSub(idle.idle_percent, I(70)), I(100)))
                    ELSE I(0)
              [] key = BURSTY -> bursty
              [] key = DIURNAL ->
                    IF diurnal.has_diurnal_pattern
                    THEN RMin(RAdd(Rat(5, 10),
                                   RDiv(RSub(diurnal.peak_to_trough_ratio, Rat(3, 2)), I(3))),
                              Rat(9, 10))
                    ELSE I(0)
              [] key = WEEKLY ->
                    IF weekly.has_weekly_pattern
                    THEN RMin(RAdd(Rat(5, 10),
                                   RDiv(RAbs(RSub(weekly.weekday_avg, weekly.weekend_avg)),
                                        WeeklyScoreDenominator(weekly.weekday_avg))),
                              Rat(85, 100))
                    ELSE I(0)
              [] key = GROWING ->
                    IF trend.direction = "growing" /\ RGt(trend.r_squared, Rat(1, 2))
                    THEN RAdd(Rat(5, 10), RMul(trend.r_squared, Rat(4, 10)))
                    ELSE I(0)
              [] key = DECLINING ->
                    IF trend.direction = "declining" /\ RGt(trend.r_squared, Rat(1, 2))
                    THEN RAdd(Rat(5, 10), RMul(trend.r_squared, Rat(4, 10)))
                    ELSE I(0)
              [] key = BATCH ->
                    IF burst.is_bursty
                       /\ (diurnal.has_diurnal_pattern \/ weekly.has_weekly_pattern)
                    THEN RMin(RAdd(bursty, Rat(2, 10)), Rat(95, 100))
                    ELSE I(0)
              [] key = STEADY_STATE ->
                    IF ~idle.is_idle_dominant /\ ~burst.is_bursty
                       /\ RLt(diurnal.peak_to_trough_ratio, Rat(3, 2))
                    THEN Rat(7, 10)
                    ELSE I(0)]

\* variant for sensitivity checks: the last key of the highest score
LastBestPattern(scores) ==
    LET n == Len(ScoreKeys)
        k == CHOOSE i \in 1..n :
                /\ \A j \in 1..n : RLe(scores[ScoreKeys[j]], scores[ScoreKeys[i]])
                /\ \A j \in i + 1..n : RLt(scores[ScoreKeys[j]], scores[ScoreKeys[i]])
    IN  ScoreKeys[k]

\* max(scores, key=scores.get): the first key, in insertion order, whose score
\* no other key's score exceeds
BestPattern(scores) ==
    LET n == Len(ScoreKeys)
        k == CHOOSE i \in 1..n :
                /\ \A j \in 1..n : RLe(scores[ScoreKeys[j]], scores[ScoreKeys[i]])
                /\ \A j \in 1..i - 1 : RLt(scores[ScoreKeys[j]], scores[ScoreKeys[i]])
    IN  ScoreKeys[k]

\* the pair (primary pattern, confidence)
_determine_primary_pattern(idle, burst, diurnal, weekly, trend) ==
    Let(PatternScores(idle, burst, diurnal, weekly, trend), LAMBDA scores :
    Let(BestPattern(scores), LAMBDA best_pattern :
    Let(scores[best_pattern], LAMBDA confidence :
        IF RLt(confidence, ErraticBelow) THEN <<ERRATIC, Rat(1, 2)>>
        ELSE <<best_pattern, confidence>>)))

_generate_recommendations(primary_pattern, idle, burst, diurnal, weekly, memory, trend) ==
    Collect(<<
        <<primary_pattern = IDLE_DOMINANT, "consider lambda/fargate">>,
        <<primary_pattern = IDLE_DOMINANT /\ RGt(idle.avg_idle_duration_hours, I(4)),
          "scheduled stop/start">>,
        <<primary_pattern = BURSTY /\ RLt(burst.avg_burst_duration_minutes, I(15)),
          "short bursts suitable for lambda">>,
        <<primary_pattern = BURSTY /\ ~RLt(burst.avg_burst_duration_minutes, I(15)),
          "fargate with auto-scaling">>,
        <<primary_pattern = BATCH, "consider spot instances">>,
        <<primary_pattern = BATCH /\ diurnal.has_diurnal_pattern,
          "schedule batch jobs off-peak">>,
        <<primary_pattern = DIURNAL, "scale down off-peak">>,
        <<primary_pattern = WEEKLY
            /\ RLt(weekly.weekend_avg, RMul(weekly.weekday_avg, Rat(1, 2))),
          "weekend shutdown">>,
        <<primary_pattern = GROWING, "plan for capacity increase">>,
        <<primary_pattern = DECLINING, "consider right-sizing">>,
        <<primary_pattern = STEADY_STATE, "reserved instances or savings plans">>,
        <<memory.has_memory_leak, "potential memory leak">>,
        <<memory.memory_pressure_events > 10, "memory pressure">> >>)

\* variant for sensitivity checks: the period measured up to the host's clock
analysis_period_days_to_now(cpu_metrics) ==
    IF cpu_metrics # <<>>
    THEN (now - cpu_metrics[1].timestamp) \div 1440
    ELSE 0

\* variant for sensitivity checks: the period counted in started days
analysis_period_days_started(cpu_metrics) ==
    IF cpu_metrics # <<>>
    THEN (cpu_metrics[Len(cpu_metrics)].timestamp - cpu_metrics[1].timestamp) \div 1440 + 1
    ELSE 1

\* (cpu_metrics[-1].timestamp - cpu_metrics[0].timestamp).days, 0 for no samples
analysis_period_days(cpu_metrics) ==
    IF cpu_metrics # <<>>
    THEN (cpu_metrics[Len(cpu_metrics)].timestamp - cpu_metrics[1].timestamp) \div 1440
    ELSE 0

analyze(self, instance_id, cpu_metrics, memory_metrics) ==
    Let(_analyze_idle_pattern(self, cpu_metrics), LAMBDA idle :
    Let(_analyze_burst_pattern(self, cpu_metrics), LAMBDA burst :
    Let(_analyze_diurnal_pattern(self, cpu_metrics), LAMBDA diurnal :
    Let(_analyze_weekly_pattern(self, cpu_metrics), LAMBDA weekly :
    Let(_analyze_trend(self, cpu_metrics), LAMBDA trend :
    Let(IF memory_metrics # <<>>
        THEN _analyze_memory_pattern(self, memory_metrics)
        ELSE NoMemoryPattern, LAMBDA memory :
    Let(_determine_primary_pattern(idle, burst, diurnal, weekly, trend), LAMBDA pc :
        [instance_id |-> instance_id,
         analysis_period_days |-> analysis_period_days(cpu_metrics),
         primary_pattern |-> pc[1],
         idle |-> idle,
         burst |-> burst,
         diurnal |-> diurnal,
         weekly |-> weekly,
         memory |-> memory,
         trend |-> trend,
         confidence |-> pc[2],
         recommendations |->
            _generate_recommendations(pc[1], idle, burst, diurnal, weekly, memory, trend)]
    )))))))

-----------------------------------------------------------------------------
(* The inputs.  Values are whole percents (or whole operation counts and    *)
(* bytes); a series is sampled at a fixed step from a start time.           *)

\* the longest series of which every sequence of values is tried
MaxShortLen == 2

\* the values of those series: either side of the idle threshold, and busy ones
ShortValues == {0, 4, 5, 50, 90}

Point(t, v) == [timestamp |-> t, value |-> v]

\* a series of the given values, one sample every step minutes from start
SeriesOf(values, start, step) ==
    [i \in 1..Len(values) |-> Point(start + (i - 1) * step, values[i])]

RECURSIVE SeqsUpTo(_, _)
SeqsUpTo(S, n) ==
    IF n = 0 THEN {<<>>}
    ELSE LET shorter == SeqsUpTo(S, n - 1)
         IN  shorter \cup {Append(q, v) : q \in {r \in shorter : Len(r) = n - 1}, v \in S}

ShortSeries == {SeriesOf(q, 0, 60) : q \in SeqsUpTo(ShortValues, MaxShortLen)}

\* the value of sample number idx (from 0), taken at time t, of a generated series
ShapeValue(shape, idx, t, start) ==
    CASE shape.kind = "const"   -> shape.hi
      [] shape.kind = "spike"   -> IF idx % shape.period < shape.width
                                   THEN shape.hi ELSE shape.lo
      [] shape.kind = "spike_for" -> IF /\ idx \div shape.period < shape.periods
                                        /\ idx % shape.period < shape.width
                                     THEN shape.hi ELSE shape.lo
      [] shape.kind = "office"  -> IF 9 <= HourOf(t) /\ HourOf(t) <= 17
                                   THEN shape.hi ELSE shape.lo
      [] shape.kind = "weekend" -> IF WeekdayOf(t) < 5 THEN shape.hi ELSE shape.lo
      [] shape.kind = "half_ramp" ->
            shape.lo + shape.sign * (((DateOf(t) - DateOf(start)) + (idx % 2)) \div 2)
      [] shape.kind = "ramp"    ->
            LET v == shape.lo + shape.per_day * (DateOf(t) - DateOf(start))
            IN  IF v > 100 THEN 100 ELSE IF v < 0 THEN 0 ELSE v

Generated(g) ==
    [i \in 1..g.n |->
        LET t == g.start + (i - 1) * g.step
        IN  Point(t, ShapeValue(g.shape, i - 1, t, g.start))]

Const(v)            == [kind |-> "const", hi |-> v]
Spike(p, w, hi, lo) == [kind |-> "spike", period |-> p, width |-> w, hi |-> hi, lo |-> lo]
\* spikes in the first periods only
SpikeFor(periods, p, w, hi, lo) ==
    [kind |-> "spike_for", periods |-> periods, period |-> p, width |-> w, hi |-> hi,
     lo |-> lo]
Office(hi, lo)      == [kind |-> "office", hi |-> hi, lo |-> lo]
Weekend(hi, lo)     == [kind |-> "weekend", hi |-> hi, lo |-> lo]
Ramp(lo, per_day)   == [kind |-> "ramp", lo |-> lo, per_day |-> per_day]

\* daily means that move by half a unit a day: the samples of a day alternate
\* between two neighbouring values or are all the same
HalfRamp(lo, sign)  == [kind |-> "half_ramp", lo |-> lo, sign |-> sign]

Gen(start, step, n, shape) == [start |-> start, step |-> step, n |-> n, shape |-> shape]

\* Monday 00:00, Monday 09:30 and Saturday 00:00
StartTimes == {0, 570, 7200}

LongSeries ==
    {Generated(g) : g \in
        {Gen(s, st, n, Const(v)) :
            s \in {0, 570}, st \in {5, 60, 120}, n \in {10, 48, 168}, v \in {2, 50}}
        \cup {Gen(0, 60, 100, Const(2)), Gen(0, 60, 336, Const(50)),
              Gen(0, 60, 336, Const(85))}
        \cup {Gen(s, 60, n, Spike(20, 3, 85, 5)) : s \in StartTimes, n \in {47, 200}}
        \cup {Gen(0, 60, 61, Spike(20, 3, 85, 5)), Gen(0, 60, 9, Spike(3, 1, 85, 5))}
        \cup {Gen(0, 60, 336, Spike(10, 1, 90, 2)), Gen(0, 60, 200, Spike(10, 1, 90, 2)),
              Gen(0, 60, 336, Spike(24, 6, 80, 10)), Gen(0, 60, 72, Spike(24, 3, 60, 30)),
              Gen(0, 5, 100, Spike(20, 3, 85, 5)), Gen(0, 1, 100, Spike(20, 3, 85, 5)),
              Gen(0, 60, 336, Spike(4, 3, 3, 40)), Gen(0, 60, 336, Spike(10, 1, 95, 1)),
              Gen(0, 60, 336, SpikeFor(11, 24, 3, 95, 5)),
              Gen(0, 60, 336, SpikeFor(11, 24, 3, 95, 4))}
        \cup {Gen(s, 60, n, Office(80, 10)) : s \in StartTimes, n \in {48, 168}}
        \cup {Gen(0, 60, 336, Office(80, 10)), Gen(0, 60, 168, Office(12, 10))}
        \cup {Gen(60 * h + 17, 60, 168, Office(80, 10)) : h \in 0..23}
        \cup {Gen(0, 60, n, Weekend(60, 10)) : n \in {167, 168, 336}}
        \cup {Gen(0, 60, 168, Weekend(10, 60)), Gen(0, 60, 168, Weekend(50, 40))}
        \cup {Gen(0, 60, n, Ramp(10, d)) : n \in {48, 72, 336}, d \in {1, 5}}
        \cup {Gen(0, 60, 168, Ramp(90, -5)), Gen(570, 60, 100, Ramp(20, 2))}
        \cup {Gen(0, 60, 72, HalfRamp(10, 1)), Gen(0, 60, 72, HalfRamp(20, -1)),
              Gen(0, 720, 6, Ramp(10, 5)), Gen(0, 60, 72, Ramp(10, 20)),
              Gen(0, 60, 96, Ramp(60, -30))}
        \cup {Gen(0, 60, 48, Office(30, 20)), Gen(0, 60, 48, Office(34, 20)),
              Gen(0, 60, 48, Office(29, 20))}}

\* the other series of a snapshot: none, or two samples an hour apart
Pair(a, b) == SeriesOf(<<a, b>>, 0, 60)

MemorySeries == {<<>>, Pair(20, 30), Pair(65, 65), Pair(75, 75), Pair(85, 95), Pair(40, 100)}
LongMemorySeries ==
    {Generated(g) : g \in {Gen(0, 60, 72, Ramp(40, 2)), Gen(0, 60, 72, Ramp(40, 1)),
                           Gen(0, 720, 6, Ramp(40, 5)), Gen(0, 60, 96, Ramp(90, -3)),
                           Gen(0, 60, 48, Ramp(40, 2)), Gen(0, 60, 72, Const(95))}}

\* [network_in, network_out, disk_read_ops, disk_write_ops]
IoProfiles ==
    {[network_in |-> <<>>, network_out |-> <<>>, disk_read_ops |-> <<>>,
      disk_write_ops |-> <<>>],
     [network_in |-> Pair(500, 900), network_out |-> Pair(100, 500),
      disk_read_ops |-> Pair(10, 50), disk_write_ops |-> Pair(5, 20)],
     [network_in |-> Pair(5000, 15000), network_out |-> Pair(10000, 30000),
      disk_read_ops |-> Pair(10, 100), disk_write_ops |-> Pair(10, 80)],
     [network_in |-> Pair(100, 200), network_out |-> Pair(2000, 3000),
      disk_read_ops |-> Pair(600, 800), disk_write_ops |-> Pair(100, 300)],
     [network_in |-> <<>>, network_out |-> <<>>, disk_read_ops |-> <<>>,
      disk_write_ops |-> Pair(400, 2000)]}

Ages == {0, 31}

Snapshot(cpu, mem, io, eip, storage, asg, age) ==
    [instance_id |-> "i-1", instance_type |-> "t3.medium",
     cpu_utilization |-> cpu, memory_utilization |-> mem,
     network_in |-> io.network_in, network_out |-> io.network_out,
     disk_read_ops |-> io.disk_read_ops, disk_write_ops |-> io.disk_write_ops,
     has_elastic_ip |-> eip, has_persistent_storage |-> storage,
     in_auto_scaling_group |-> asg, instance_age_days |-> age]

NoIo == [network_in |-> <<>>, network_out |-> <<>>, disk_read_ops |-> <<>>,
         disk_write_ops |-> <<>>]

\* a CPU series alone, everything else left at the dataclass defaults
CpuOnly(cpu) == Snapshot(cpu, <<>>, NoIo, FALSE, FALSE, FALSE, 0)

\* the CPU series tried with every combination of the other fields
ContextSeries ==
    {<<>>, SeriesOf(<<0>>, 0, 60), Pair(4, 4), Pair(50, 50), Pair(5, 90), Pair(90, 90),
     Pair(0, 50)}

Snapshots ==
    {Snapshot(cpu, mem, io, eip, storage, asg, age) :
        cpu \in ContextSeries, mem \in MemorySeries, io \in IoProfiles,
        eip \in BOOLEAN, storage \in BOOLEAN, asg \in BOOLEAN, age \in Ages}
    \cup {CpuOnly(cpu) : cpu \in ShortSeries \cup LongSeries}
    \cup {Snapshot(SeriesOf(<<0, 0, 0, 40, 40, 40, 40, 40, 100, 100>>, 0, 60), <<>>,
                    [network_in |-> <<>>, network_out |-> Pair(20000, 20000),
                     disk_read_ops |-> <<>>,
                     disk_write_ops |-> SeriesOf(<<0, 0, 0, 1200>>, 0, 60)],
                    FALSE, FALSE, FALSE, 0)}
    \cup {Snapshot(cpu, mem, NoIo, eip, FALSE, FALSE, 31) :
            cpu \in {Generated(Gen(0, 60, 336, Spike(24, 6, 80, 10))),
                     Generated(Gen(0, 60, 200, Spike(20, 3, 85, 5)))},
            mem \in LongMemorySeries, eip \in BOOLEAN}

-----------------------------------------------------------------------------
(* Exceptions.  The operations of the code that can raise are a division    *)
(* (ZeroDivisionError on a zero denominator), statistics.mean of no data,   *)
(* statistics.stdev of fewer than two values (StatisticsError), max or min  *)
(* of an empty list (ValueError) and the formatting of None (TypeError).    *)
(* Each predicate below lists the raising operations of one function, each  *)
(* under the conditions under which the code reaches it.                    *)

DivRaises(denominator) == denominator[1] = 0
MeanRaises(values)     == Len(values) = 0
StdevRaises(values)    == Len(values) < 2
MaxRaises(values)      == Len(values) = 0

SeriesStatsRaise(values, with_max, with_stdev) ==
    /\ values # <<>>
    /\ \/ MeanRaises(values)
       \/ with_max /\ MaxRaises(values)
       \/ with_stdev /\ Len(values) > 1 /\ StdevRaises(values)

_compute_statistics_raises(m) ==
    LET cpu_values == ValuesOf(m.cpu_utilization)
    IN  \/ SeriesStatsRaise(cpu_values, TRUE, TRUE)
        \/ cpu_values # <<>> /\ DivRaises(I(Len(cpu_values)))
        \/ SeriesStatsRaise(ValuesOf(m.memory_utilization), TRUE, TRUE)
        \/ SeriesStatsRaise(ValuesOf(m.network_in), TRUE, FALSE)
        \/ SeriesStatsRaise(ValuesOf(m.network_out), TRUE, FALSE)
        \/ SeriesStatsRaise(ValuesOf(m.disk_read_ops), FALSE, FALSE)
        \/ SeriesStatsRaise(ValuesOf(m.disk_write_ops), TRUE, FALSE)
        \/ LET cpu == IF cpu_values # <<>> THEN [cpu_avg |-> mean(cpu_values)] ELSE <<>>
           IN  DivRaises(RatioDenominator(cpu))

\* _simple_correlation divides by denom_x * denom_y unless one of them is 0; the
\* mean of the correlations is taken of a non-empty list only
classify_raises(self, m) == _compute_statistics_raises(m)

_analyze_idle_pattern_raises(self, series) ==
    /\ series # <<>>
    /\ DivRaises(I(Len(series)))

_analyze_burst_pattern_raises(self, series) ==
    /\ ~(Len(series) < 10)
    /\ LET baseline == BurstBaseline(ValuesOf(series))
       IN  DivRaises(IntensityDenominator(baseline))

_analyze_diurnal_pattern_raises(self, series) ==
    /\ ~(Len(series) < 48)
    /\ LET hourly_averages == BucketAverages(series, 0, 23, HourOf)
       IN  DivRaises(DiurnalDenominator(
                hourly_averages[FirstKeyOfMin(hourly_averages, 0, 23)]))

_analyze_weekly_pattern_raises(self, series) ==
    /\ ~(Len(series) < 168)
    /\ LET daily_averages == BucketAverages(series, 0, 6, WeekdayOf)
       IN  DivRaises(WeeklyDenominator(
                rmean([d \in 1..5 |-> daily_averages[d - 1]]),
                rmean(<<daily_averages[5], daily_averages[6]>>)))

_analyze_memory_pattern_raises(self, series) ==
    /\ series # <<>>
    /\ \/ MeanRaises(ValuesOf(series))
       \/ Len(series) > 1 /\ StdevRaises(ValuesOf(series))

_determine_primary_pattern_raises(idle, burst, diurnal, weekly, trend) ==
    weekly.has_weekly_pattern /\ DivRaises(WeeklyScoreDenominator(weekly.weekday_avg))

\* the f-string of a leak prints leak_rate_percent_per_day with :.1f
_generate_recommendations_raises(memory) ==
    memory.has_memory_leak /\ memory.leak_rate_percent_per_day = <<>>

analyze_raises(self, cpu_metrics, memory_metrics) ==
    \/ _analyze_idle_pattern_raises(self, cpu_metrics)
    \/ _analyze_burst_pattern_raises(self, cpu_metrics)
    \/ _analyze_diurnal_pattern_raises(self, cpu_metrics)
    \/ _analyze_weekly_pattern_raises(self, cpu_metrics)
    \/ memory_metrics # <<>> /\ _analyze_memory_pattern_raises(self, memory_metrics)
    \/ _determine_primary_pattern_raises(
            _analyze_idle_pattern(self, cpu_metrics),
            _analyze_burst_pattern(self, cpu_metrics),
            _analyze_diurnal_pattern(self, cpu_metrics),
            _analyze_weekly_pattern(self, cpu_metrics),
            _analyze_trend(self, cpu_metrics))
    \/ memory_metrics # <<>>
        /\ _generate_recommendations_raises(_analyze_memory_pattern(self, memory_metrics))

-----------------------------------------------------------------------------
(* Sub-analysis records handed to _determine_primary_pattern directly.  The *)
(* dataclasses validate nothing, so the fields are independent; only the    *)
(* fields the function reads are carried.                                   *)

IdleParts ==
    {[is_idle_dominant |-> b, idle_percent |-> I(p)] :
        <<b, p>> \in {<<FALSE, 0>>, <<FALSE, 70>>, <<TRUE, 70>>, <<TRUE, 80>>,
                      <<TRUE, 100>>, <<TRUE, 20>>}}

BurstParts ==
    {[is_bursty |-> FALSE, avg_burst_intensity |-> I(0), burst_count |-> 0],
     [is_bursty |-> TRUE, avg_burst_intensity |-> I(3), burst_count |-> 5],
     [is_bursty |-> TRUE, avg_burst_intensity |-> Rat(21, 10), burst_count |-> 3],
     [is_bursty |-> TRUE, avg_burst_intensity |-> I(4), burst_count |-> 10]}

DiurnalParts ==
    {[has_diurnal_pattern |-> b, peak_to_trough_ratio |-> r] :
        <<b, r>> \in {<<FALSE, I(1)>>, <<FALSE, I(2)>>, <<TRUE, Rat(3, 2)>>,
                      <<TRUE, Rat(5, 4)>>, <<TRUE, I(1)>>, <<TRUE, I(5)>>}}

WeeklyParts ==
    {[has_weekly_pattern |-> b, weekday_avg |-> I(wd), weekend_avg |-> I(we)] :
        <<b, wd, we>> \in {<<FALSE, 0, 0>>, <<TRUE, 10, 8>>, <<TRUE, 10, 2>>,
                           <<TRUE, 0, 5>>}}

TrendParts ==
    {[direction |-> d, r_squared |-> r] :
        <<d, r>> \in {<<"stable", I(0)>>, <<"growing", Rat(1, 2)>>,
                      <<"growing", Rat(3, 4)>>, <<"declining", I(1)>>,
                      <<"growing", I(1)>>}}

PartInputs ==
    {[idle |-> i, burst |-> b, diurnal |-> d, weekly |-> w, trend |-> t] :
        i \in IdleParts, b \in BurstParts, d \in DiurnalParts, w \in WeeklyParts,
        t \in TrendParts}

-----------------------------------------------------------------------------
(* The state machine.  Under Spec one call of classify, analyze or          *)
(* _determine_primary_pattern is made on the input chosen at the start.     *)
(* Under SpecCalls calls are repeated while the clock advances, other       *)
(* instances are constructed and other inputs are submitted in between.     *)

NoConfig == <<>>

\* one override at a time; the last one names a threshold no _apply_config reads
Overrides ==
    {[idle_threshold |-> 10], [idle_threshold |-> 1], [burst_multiplier |-> 3],
     [lambda_max_avg_cpu |-> 50], [fargate_max_cpu_stddev |-> 5],
     [min_burst_duration_minutes |-> 240]}

NoCall ==
    /\ result = <<>>
    /\ analysis = <<>>
    /\ primary = <<>>
    /\ ~raised

NoFirst == [classify |-> <<>>, analyze |-> <<>>, primary |-> <<>>]

Init ==
    /\ \/ metrics \in Snapshots /\ config = NoConfig /\ parts = <<>>
       \/ /\ metrics \in {CpuOnly(cpu) : cpu \in ShortSeries \cup LongSeries}
          /\ config \in Overrides
          /\ parts = <<>>
       \/ /\ metrics = CpuOnly(<<>>)
          /\ config = NoConfig
          /\ parts \in {<<p>> : p \in PartInputs}
    /\ classifier = WorkloadClassifier_init(config)
    /\ detector = PatternDetector_init(config)
    /\ result = <<>>
    /\ analysis = <<>>
    /\ primary = <<>>
    /\ raised = FALSE
    /\ now = 0
    /\ others = {}
    /\ first = NoFirst
    /\ NoHelperCall

\* result = classifier.classify(metrics); nothing of the instance is assigned
ClassifyCall ==
    /\ parts = <<>>
    /\ IF classify_raises(classifier, metrics)
       THEN raised' = TRUE /\ result' = <<>>
       ELSE raised' = FALSE /\ result' = <<classify(classifier, metrics)>>
    /\ UNCHANGED <<metrics, parts, classifier, detector, analysis, primary, config, now,
                   others>>
    /\ UNCHANGED helper_vars

\* analysis = detector.analyze(instance_id, cpu_utilization, memory_utilization)
AnalyzeCall ==
    /\ parts = <<>>
    /\ IF analyze_raises(detector, metrics.cpu_utilization, metrics.memory_utilization)
       THEN raised' = TRUE /\ analysis' = <<>>
       ELSE /\ raised' = FALSE
            /\ analysis' = <<analyze(detector, metrics.instance_id,
                                     metrics.cpu_utilization, metrics.memory_utilization)>>
    /\ UNCHANGED <<metrics, parts, classifier, detector, result, primary, config, now,
                   others>>
    /\ UNCHANGED helper_vars

\* primary = detector._determine_primary_pattern(idle, burst, diurnal, weekly, trend)
DeterminePrimaryCall ==
    /\ parts # <<>>
    /\ LET p == parts[1]
       IN  IF _determine_primary_pattern_raises(p.idle, p.burst, p.diurnal, p.weekly,
                                                p.trend)
           THEN raised' = TRUE /\ primary' = <<>>
           ELSE /\ raised' = FALSE
                /\ primary' = <<_determine_primary_pattern(p.idle, p.burst, p.diurnal,
                                                           p.weekly, p.trend)>>
    /\ UNCHANGED <<metrics, parts, classifier, detector, result, analysis, config, now,
                   others>>
    /\ UNCHANGED helper_vars

Classify == NoCall /\ ClassifyCall /\ UNCHANGED first

Analyze == NoCall /\ AnalyzeCall /\ UNCHANGED first

DeterminePrimary == NoCall /\ DeterminePrimaryCall /\ UNCHANGED first

Next == Classify \/ Analyze \/ DeterminePrimary

Spec == Init /\ [][Next]_vars

-----------------------------------------------------------------------------
(* Repeated calls.                                                          *)

\* how many days the clock advances at most
MaxTicks == 1

\* each input is a snapshot or a tuple of sub-analysis records
CallInputs ==
    {<<CpuOnly(Generated(Gen(0, 60, 100, Const(2)))), <<>>>>,
     <<Snapshot(Pair(5, 90), Pair(85, 95), NoIo, TRUE, FALSE, TRUE, 31), <<>>>>}
    \cup {<<CpuOnly(<<>>), <<p>>>> : p \in
            {[idle |-> [is_idle_dominant |-> TRUE, idle_percent |-> I(80)],
              burst |-> [is_bursty |-> TRUE, avg_burst_intensity |-> I(3),
                         burst_count |-> 5],
              diurnal |-> [has_diurnal_pattern |-> TRUE, peak_to_trough_ratio |-> I(5)],
              weekly |-> [has_weekly_pattern |-> FALSE, weekday_avg |-> I(0),
                          weekend_avg |-> I(0)],
              trend |-> [direction |-> "stable", r_squared |-> I(0)]],
             [idle |-> [is_idle_dominant |-> FALSE, idle_percent |-> I(0)],
              burst |-> [is_bursty |-> FALSE, avg_burst_intensity |-> I(0),
                         burst_count |-> 0],
              diurnal |-> [has_diurnal_pattern |-> FALSE, peak_to_trough_ratio |-> I(2)],
              weekly |-> [has_weekly_pattern |-> FALSE, weekday_avg |-> I(0),
                          weekend_avg |-> I(0)],
              trend |-> [direction |-> "stable", r_squared |-> I(0)]]}}

\* the configs other instances are constructed with
OtherConfigs == {[idle_threshold |-> 1, lambda_max_avg_cpu |-> 50]}

InitCalls ==
    /\ \E input \in CallInputs : metrics = input[1] /\ parts = input[2]
    /\ config \in {NoConfig, [idle_threshold |-> 10]}
    /\ classifier = WorkloadClassifier_init(config)
    /\ detector = PatternDetector_init(config)
    /\ result = <<>>
    /\ analysis = <<>>
    /\ primary = <<>>
    /\ raised = FALSE
    /\ now = 0
    /\ others = {}
    /\ first = NoFirst
    /\ NoHelperCall

\* the first call of an operation is kept with its input, its time and its outcome
Remember(op, was_raised, value) ==
    first' = IF first[op] = <<>>
             THEN [first EXCEPT ![op] = <<[input |-> <<metrics, parts>>, at |-> now,
                                           raised |-> was_raised, value |-> value]>>]
             ELSE first

ClassifyAgain == ClassifyCall /\ Remember("classify", raised', result')

AnalyzeAgain == AnalyzeCall /\ Remember("analyze", raised', analysis')

DeterminePrimaryAgain == DeterminePrimaryCall /\ Remember("primary", raised', primary')

\* a day passes on the host's clock
Tick ==
    /\ now < MaxTicks * 1440
    /\ now' = now + 1440
    /\ UNCHANGED <<metrics, parts, classifier, detector, result, analysis, primary,
                   raised, config, others, first>>
    /\ UNCHANGED helper_vars

\* another WorkloadClassifier and PatternDetector are constructed: __init__ and the
\* _apply_config methods assign attributes of the new instance only
ConstructOther ==
    \E cfg \in OtherConfigs :
        /\ cfg \notin others
        /\ others' = others \cup {cfg}
        /\ UNCHANGED <<metrics, parts, classifier, detector, result, analysis, primary,
                       raised, config, now, first>>
        /\ UNCHANGED helper_vars

\* the caller turns to another input; what was returned for the last one is dropped
Submit ==
    \E input \in CallInputs :
        /\ input # <<metrics, parts>>
        /\ metrics' = input[1]
        /\ parts' = input[2]
        /\ result' = <<>>
        /\ analysis' = <<>>
        /\ primary' = <<>>
        /\ raised' = FALSE
        /\ UNCHANGED <<classifier, detector, config, now, others, first>>
        /\ UNCHANGED helper_vars

NextCalls ==
    \/ ClassifyAgain
    \/ AnalyzeAgain
    \/ DeterminePrimaryAgain
    \/ Tick
    \/ ConstructOther
    \/ Submit

SpecCalls == InitCalls /\ [][NextCalls]_vars

-----------------------------------------------------------------------------
(* Properties of classify.                                                  *)

\* the four candidate scores of the snapshot at hand, in the order classify lists them
CurrentScores == CandidateScores(classifier, metrics, _compute_statistics(metrics))

\* C1: classify returns one primary classification; it is a candidate whose score
\* no other of the four candidate scores exceeds, and the confidence returned is
\* min(that score, 1.0), which lies in [0, 1].
C1_PrimaryIsMaximal ==
    result # <<>> =>
        LET r == result[1]
        IN  /\ r.classification \in WorkloadClassification
            /\ \E i \in 1..4 :
                    /\ CurrentScores[i].classification = r.classification
                    /\ \A j \in 1..4 : RLe(CurrentScores[j].score, CurrentScores[i].score)
                    /\ r.confidence = RMin(CurrentScores[i].score, I(1))
            /\ RLe(I(0), r.confidence)
            /\ RLe(r.confidence, I(1))

\* a classification whose best score is strictly above another candidate's
C1_Witness ==
    /\ result # <<>>
    /\ \E i, j \in 1..4 :
            /\ CurrentScores[i].classification = result[1].classification
            /\ RLt(CurrentScores[j].score, CurrentScores[i].score)
            /\ RGt(CurrentScores[j].score, I(0))
    /\ RGe(result[1].confidence, Rat(8, 10))

\* C2: alternative_classifications never holds the primary classification, holds
\* exactly the other candidates whose score is strictly above 0.3, each with its
\* score, in non-increasing order of score, and so has at most three entries.
C2_Alternatives ==
    result # <<>> =>
        LET r    == result[1]
            alts == r.alternative_classifications
            n    == Len(alts)
        IN  /\ \A i \in 1..n : alts[i][1] # r.classification
            /\ {alts[i] : i \in 1..n} =
                 {<<CurrentScores[k].classification, CurrentScores[k].score>> :
                    k \in {j \in 1..4 :
                            /\ CurrentScores[j].classification # r.classification
                            /\ RGt(CurrentScores[j].score, Rat(3, 10))}}
            /\ Cardinality({alts[i][1] : i \in 1..n}) = n
            /\ \A i \in 1..n : \A j \in i..n : RGe(alts[i][2], alts[j][2])
            /\ n <= 3

\* two alternatives of different scores are listed and a third candidate is left out
C2_Witness ==
    /\ result # <<>>
    /\ Len(result[1].alternative_classifications) = 2
    /\ RGt(result[1].alternative_classifications[1][2],
           result[1].alternative_classifications[2][2])
    /\ \E k \in 1..4 :
            /\ CurrentScores[k].classification # result[1].classification
            /\ RLe(CurrentScores[k].score, Rat(3, 10))

-----------------------------------------------------------------------------
(* Properties of analyze.                                                   *)

InUnitInterval(r) == RLe(I(0), r) /\ RLe(r, I(1))

\* the scores dict _determine_primary_pattern builds from the records p
ScoresOf(p) == PatternScores(p.idle, p.burst, p.diurnal, p.weekly, p.trend)

\* the largest of the eight scores
MaxScore(scores) == RMaxOf([i \in 1..Len(ScoreKeys) |-> scores[ScoreKeys[i]]])

\* C3: the confidence of the PatternAnalysis analyze returns lies in [0, 1], and
\* so does every candidate score _determine_primary_pattern computes, the
\* idle-dominant score for idle_percent up to 100 included.
C3_ConfidenceInUnitInterval ==
    /\ analysis # <<>> => InUnitInterval(analysis[1].confidence)
    /\ (primary # <<>> /\ RLe(parts[1].idle.idle_percent, I(100))) =>
            /\ InUnitInterval(primary[1][2])
            /\ \A i \in 1..Len(ScoreKeys) : InUnitInterval(ScoresOf(parts[1])[ScoreKeys[i]])

\* C4: idle_percent lies in [0, 100] and is 100 times the fraction of the samples
\* strictly below the idle threshold of the detector (5.0 unless overridden), 0 for
\* no samples; is_idle_dominant holds exactly when idle_percent > 70.
C4_IdlePercent ==
    analysis # <<>> =>
        LET idle  == analysis[1].idle
            cpu   == ValuesOf(metrics.cpu_utilization)
            below == Cardinality({i \in 1..Len(cpu) : cpu[i] < detector.IDLE_THRESHOLD_CPU})
        IN  /\ RLe(I(0), idle.idle_percent)
            /\ RLe(idle.idle_percent, I(100))
            /\ idle.idle_percent = IF cpu = <<>> THEN I(0) ELSE Rat(100 * below, Len(cpu))
            /\ idle.is_idle_dominant <=> RGt(idle.idle_percent, I(70))
            /\ config = NoConfig => detector.IDLE_THRESHOLD_CPU = 5

\* a series with a sample at the threshold and a sample below it has been analyzed
C4_Witness ==
    /\ analysis # <<>>
    /\ \E i \in 1..Len(metrics.cpu_utilization) :
            metrics.cpu_utilization[i].value = detector.IDLE_THRESHOLD_CPU
    /\ RGt(analysis[1].idle.idle_percent, I(0))
    /\ RLt(analysis[1].idle.idle_percent, I(100))

\* C5: for an empty CPU series and no memory series every sub-analysis is at its
\* neutral default and analysis_period_days is 0.
C5_EmptySeriesDefaults ==
    (analysis # <<>> /\ metrics.cpu_utilization = <<>> /\ metrics.memory_utilization = <<>>)
    =>  LET a == analysis[1]
        IN  /\ a.idle.idle_percent = I(0)
            /\ a.idle.idle_periods = <<>>
            /\ ~a.idle.is_idle_dominant
            /\ a.burst.burst_count = 0
            /\ ~a.burst.is_bursty
            /\ ~a.diurnal.has_diurnal_pattern
            /\ a.diurnal.peak_to_trough_ratio = I(1)
            /\ ~a.weekly.has_weekly_pattern
            /\ a.trend.direction = "stable"
            /\ a.trend.slope_per_day = I(0)
            /\ ~a.memory.has_memory_leak
            /\ a.memory.memory_pressure_events = 0
            /\ a.analysis_period_days = 0

\* analyze has returned for an empty CPU series and no memory series
C5_Witness ==
    /\ analysis # <<>>
    /\ metrics.cpu_utilization = <<>>
    /\ metrics.memory_utilization = <<>>

\* C6: analyze and classify return without raising for every input; no division
\* on the way has a zero denominator.
C6_NeverRaises == ~raised

\* analyze has returned for a series of two days or more with an hour of the day at
\* which every sample is 0 or none was taken, so the trough of the hourly averages is 0
C6_Witness ==
    /\ analysis # <<>>
    /\ Len(metrics.cpu_utilization) >= 48
    /\ \E h \in 0..23 : BucketAverages(metrics.cpu_utilization, h, h, HourOf)[h] = I(0)

\* C7: for a CPU series whose samples all have the same value, of any length,
\* sampling interval and coverage of hours and weekdays, analyze reports
\* is_bursty, has_diurnal_pattern and has_weekly_pattern False and the trend stable.
C7_ConstantSeriesNeutral ==
    (/\ analysis # <<>>
     /\ metrics.cpu_utilization # <<>>
     /\ \A i \in 1..Len(metrics.cpu_utilization) :
            metrics.cpu_utilization[i].value = metrics.cpu_utilization[1].value)
    =>  LET a == analysis[1]
        IN  /\ ~a.burst.is_bursty
            /\ ~a.diurnal.has_diurnal_pattern
            /\ ~a.weekly.has_weekly_pattern
            /\ a.trend.direction = "stable"

-----------------------------------------------------------------------------
(* Properties of _determine_primary_pattern.                                *)

\* the eight candidate patterns in the order class PatternType declares them
CandidatePatterns == SubSeq(PatternType, 1, 8)

\* pattern is a candidate of the highest score, and the first of them in the
\* order PatternType declares them
FirstOfHighest(pattern, scores) ==
    \E i \in 1..8 :
        /\ CandidatePatterns[i] = pattern
        /\ scores[pattern] = MaxScore(scores)
        /\ \A j \in 1..i - 1 : scores[CandidatePatterns[j]] # MaxScore(scores)

C9_ErraticBelowThreshold ==
    primary # <<>> =>
        LET scores == ScoresOf(parts[1])
            low    == RLt(MaxScore(scores), Rat(4, 10))
        IN  /\ primary[1] = <<ERRATIC, Rat(1, 2)>> <=> low
            /\ ~low => /\ primary[1][1] \in DOMAIN scores
                       /\ scores[primary[1][1]] = MaxScore(scores)
                       /\ primary[1][2] = MaxScore(scores)

\* ERRATIC has been reported although a candidate scored above 0
C9_Witness ==
    /\ primary # <<>>
    /\ primary[1][1] = ERRATIC
    /\ RGt(MaxScore(ScoresOf(parts[1])), I(0))

-----------------------------------------------------------------------------
(* Properties of repeated calls.                                            *)

\* the outcome kept for the first call of op, if it was made on the input at hand
FirstHere(op) ==
    IF first[op] # <<>> /\ first[op][1].input = <<metrics, parts>>
    THEN first[op]
    ELSE <<>>

-----------------------------------------------------------------------------
(* classify_workloads: one WorkloadClassifier built from the config and     *)
(* applied to each workload of a list in turn.  A call is kept as a record  *)
(* of its list, its instance and the results collected so far, and advances *)
(* by one element of the comprehension at a time, so that two calls in      *)
(* progress interleave freely.  classify assigns no attribute of the        *)
(* instance and does not raise on the snapshots below.                      *)

MaxBatch == 3

BatchWorkloads ==
    {CpuOnly(Pair(4, 4)), CpuOnly(Pair(5, 90)),
     Snapshot(Pair(50, 50), Pair(65, 65), NoIo, TRUE, TRUE, FALSE, 31)}

BatchConfigs == {NoConfig, [lambda_max_avg_cpu |-> 50]}

Reverse(q) == [i \in 1..Len(q) |-> q[Len(q) + 1 - i]]

\* classifier = WorkloadClassifier(config), before the comprehension starts
classify_workloads_begin(workloads, cfg) ==
    [workloads |-> workloads, classifier |-> WorkloadClassifier_init(cfg),
     results |-> <<>>]

\* the comprehension taken from the back of the list
NextWorkloadFromEnd(batch) == batch.workloads[Len(batch.workloads) - Len(batch.results)]

\* for w in workloads: the element the comprehension turns to next
NextWorkload(batch) == batch.workloads[Len(batch.results) + 1]

\* [classifier.classify(w) for w in workloads], one element further
classify_workloads_step(batch) ==
    [batch EXCEPT !.results = Append(@, classify(batch.classifier, NextWorkload(batch)))]

\* the list is returned once the comprehension has consumed every workload
classify_workloads_done(batch) == Len(batch.results) = Len(batch.workloads)

InitBatch ==
    /\ config \in BatchConfigs
    /\ \E workloads \in SeqsUpTo(BatchWorkloads, MaxBatch) :
          batches = <<classify_workloads_begin(workloads, config),
                      classify_workloads_begin(Reverse(workloads), config)>>
    /\ metrics = CpuOnly(<<>>)
    /\ parts = <<>>
    /\ classifier = WorkloadClassifier_init(config)
    /\ detector = PatternDetector_init(config)
    /\ result = <<>>
    /\ analysis = <<>>
    /\ primary = <<>>
    /\ raised = FALSE
    /\ now = 0
    /\ others = {}
    /\ first = NoFirst
    /\ args = <<>>
    /\ returned = <<>>

ClassifyNextWorkload ==
    \E b \in 1..Len(batches) :
        /\ ~classify_workloads_done(batches[b])
        /\ batches' = [batches EXCEPT ![b] = classify_workloads_step(batches[b])]
        /\ UNCHANGED <<metrics, parts, classifier, detector, result, analysis, primary,
                       raised, config, now, others, first, args, returned>>

NextBatch == ClassifyNextWorkload

SpecBatch == InitBatch /\ [][NextBatch]_vars

-----------------------------------------------------------------------------
(* Direct calls of the helper methods.  args holds the method called and    *)
(* its arguments, returned the value it gave back together with the         *)
(* arguments as they were when the call was made.                           *)

MaxValuesLen == 3

PercentileValues == {0, 4, 10, 50}

Percentiles == {0, 25, 50, 95, 100}

PercentileMethods == {"WorkloadClassifier._percentile", "PatternDetector._percentile"}

PercentileArgs ==
    {[method |-> method, values |-> values, percentile |-> percentile] :
        method \in PercentileMethods,
        values \in SeqsUpTo(PercentileValues, MaxValuesLen),
        percentile \in Percentiles}

MaxRepeats == 4

\* 24-point blocks: flat, a three-hour spike, a ramp, a single step
Blocks ==
    {[i \in 1..24 |-> 50], [i \in 1..24 |-> 0],
     [i \in 1..24 |-> IF i <= 3 THEN 85 ELSE 5],
     [i \in 1..24 |-> 4 * i], [i \in 1..24 |-> IF i = 24 THEN 11 ELSE 10]}

\* the block, times times over
Repeated(block, times) ==
    [i \in 1..(Len(block) * times) |-> block[((i - 1) % Len(block)) + 1]]

\* series that repeat no block: a ramp over three days, and a day up then a day down
Unrepeated ==
    {[i \in 1..72 |-> i], [i \in 1..48 |-> IF i <= 24 THEN i ELSE 49 - i]}

\* a block twice over, then the same block back to front
Reversed ==
    {Repeated(block, 2) \o [i \in 1..24 |-> block[25 - i]] : block \in Blocks}

PeriodicArgs ==
    {[method |-> "_detect_periodic_pattern", values |-> values] :
        values \in {Repeated(block, times) : block \in Blocks, times \in 1..MaxRepeats}
                   \cup Unrepeated \cup Reversed}

\* sorted_values = sorted(values): a new list, the argument stays as it is
values_after_sorted(values) == values

InitHelpers ==
    /\ args \in {<<a>> : a \in PercentileArgs \cup PeriodicArgs}
    /\ returned = <<>>
    /\ batches = <<>>
    /\ config = NoConfig
    /\ metrics = CpuOnly(<<>>)
    /\ parts = <<>>
    /\ classifier = WorkloadClassifier_init(config)
    /\ detector = PatternDetector_init(config)
    /\ result = <<>>
    /\ analysis = <<>>
    /\ primary = <<>>
    /\ raised = FALSE
    /\ now = 0
    /\ others = {}
    /\ first = NoFirst

HelperFrame ==
    UNCHANGED <<metrics, parts, classifier, detector, result, analysis, primary, raised,
                config, now, others, first, batches>>

\* self._percentile(values, percentile) of either class
PercentileCall ==
    /\ args # <<>>
    /\ returned = <<>>
    /\ args[1].method \in PercentileMethods
    /\ returned' =
          <<[of |-> args[1],
             value |-> IF args[1].method = "WorkloadClassifier._percentile"
                       THEN WorkloadClassifier_percentile(args[1].values,
                                                          args[1].percentile)
                       ELSE PatternDetector_percentile(args[1].values,
                                                       args[1].percentile)]>>
    /\ args' = <<[args[1] EXCEPT !.values = values_after_sorted(@)]>>
    /\ HelperFrame

\* self._detect_periodic_pattern(values)
DetectPeriodicCall ==
    /\ args # <<>>
    /\ returned = <<>>
    /\ args[1].method = "_detect_periodic_pattern"
    /\ returned' = <<[of |-> args[1], value |-> _detect_periodic_pattern(args[1].values)]>>
    /\ UNCHANGED args
    /\ HelperFrame

NextHelpers ==
    \/ PercentileCall
    \/ DetectPeriodicCall

SpecHelpers == InitHelpers /\ [][NextHelpers]_vars

\* equality of two rationals
REq(a, b) == a[1] * b[2] = b[1] * a[2]

\* the values in ascending order: a rearrangement of the list that never descends
Ascending(values) ==
    CHOOSE sorted \in [1..Len(values) -> {values[i] : i \in 1..Len(values)}] :
        /\ \A i \in 1..(Len(values) - 1) : sorted[i] <= sorted[i + 1]
        /\ \A v \in {values[i] : i \in 1..Len(values)} :
              Cardinality({i \in 1..Len(values) : sorted[i] = v})
                  = Cardinality({i \in 1..Len(values) : values[i] = v})

\* the value between the order statistics around the rank (n - 1) * p / 100
Interpolated(values, p) ==
    LET n    == Len(values)
        rank == (n - 1) * p
        k    == rank \div 100
        asc  == Ascending(values)
    IN  IF k = n - 1 THEN I(asc[n])
        ELSE RAdd(I(asc[k + 1]), RMul(Rat(rank % 100, 100), I(asc[k + 2] - asc[k + 1])))

\* the middle value of an odd number of values
Median(values) == Ascending(values)[(Len(values) + 1) \div 2]

\* C12: percentile returns 0 for no values, otherwise the linear interpolation of
\* the two order statistics around rank (n-1)*p/100 (the maximum at the last
\* rank), hence the median at p = 50 for an odd number of values, and it leaves the
\* list it was given as it was
C12_Percentile ==
    (returned # <<>> /\ returned[1].of.method \in PercentileMethods) =>
        LET values == returned[1].of.values
            p      == returned[1].of.percentile
            value  == returned[1].value
        IN  /\ values = <<>> => REq(value, I(0))
            /\ values # <<>> => REq(value, Interpolated(values, p))
            /\ (Len(values) % 2 = 1 /\ p = 50) => REq(value, I(Median(values)))
            /\ args[1].values = values

\* the 25th percentile of the unsorted list [50, 0, 10] lies between 0 and 10
C12_Witness ==
    /\ returned # <<>>
    /\ returned[1].of.method = "PatternDetector._percentile"
    /\ returned[1].of.values = <<50, 0, 10>>
    /\ returned[1].of.percentile = 25
    /\ REq(returned[1].value, I(5))
    /\ args[1].values = <<50, 0, 10>>

-----------------------------------------------------------------------------
(* The scenarios of the test suite.                                         *)

\* consecutive samples are an hour apart
Hourly(series) ==
    \A i \in 1..(Len(series) - 1) : series[i + 1].timestamp = series[i].timestamp + 60

\* nothing but a CPU series: no other series, every flag false, age 0
OnlyCpu(m) == m = CpuOnly(m.cpu_utilization)

\* 336 hourly samples, a tenth of them (33 or 34) in [70, 95], the others in [1, 5]
BurstyScenario(m) ==
    LET cpu  == ValuesOf(m.cpu_utilization)
        high == {i \in 1..Len(cpu) : 70 <= cpu[i] /\ cpu[i] <= 95}
        low  == {i \in 1..Len(cpu) : 1 <= cpu[i] /\ cpu[i] <= 5}
    IN  /\ OnlyCpu(m)
        /\ Len(cpu) = 336
        /\ Hourly(m.cpu_utilization)
        /\ high \cup low = 1..Len(cpu)
        /\ Cardinality(high) \in {33, 34}

\* C13: a snapshot of nothing but 336 hourly CPU samples, 10% of them in [70,95] and
\* 90% in [1,5], is classified lambda_candidate by a classifier with the default
\* thresholds, with a confidence above 0.5 and at least one reason
C13_BurstyIsLambda ==
    (result # <<>> /\ config = NoConfig /\ BurstyScenario(metrics)) =>
        /\ result[1].classification = LAMBDA_CANDIDATE
        /\ RGt(result[1].confidence, Rat(1, 2))
        /\ result[1].reasons # <<>>

\* 168 consecutive hourly samples: 80 from 9:00 to 17:59, 10 at the other hours
OfficeScenario(series) ==
    /\ Len(series) = 168
    /\ Hourly(series)
    /\ \A i \in 1..Len(series) :
          series[i].value = IF HourOf(series[i].timestamp) \in 9..17 THEN 80 ELSE 10

\* C14: for a week of hourly samples that are 80 in the hours 9 to 17 and 10
\* otherwise, whatever the hour the week starts at, the diurnal analysis reports a
\* diurnal pattern, a peak-to-trough ratio above 3, a peak hour within 9..17 and a
\* trough hour outside 9..17
C14_OfficeHoursAreDiurnal ==
    (analysis # <<>> /\ OfficeScenario(metrics.cpu_utilization)) =>
        /\ analysis[1].diurnal.has_diurnal_pattern
        /\ RGt(analysis[1].diurnal.peak_to_trough_ratio, I(3))
        /\ analysis[1].diurnal.peak_hour \in 9..17
        /\ analysis[1].diurnal.trough_hour \notin 9..17

\* a week that starts at 13:17 has been analysed: peak at 9, trough at midnight
C14_Witness ==
    /\ analysis # <<>>
    /\ OfficeScenario(metrics.cpu_utilization)
    /\ metrics.cpu_utilization[1].timestamp = 13 * 60 + 17
    /\ analysis[1].diurnal.peak_hour = 9
    /\ analysis[1].diurnal.trough_hour = 0
    /\ analysis[1].diurnal.peak_to_trough_ratio = I(8)

\* 200 hourly samples: 85 at the indices (from 0) that are 0, 1 or 2 modulo 20, else 5
SpikeScenario(series) ==
    /\ Len(series) = 200
    /\ Hourly(series)
    /\ \A i \in 1..Len(series) : series[i].value = IF (i - 1) % 20 < 3 THEN 85 ELSE 5

\* C15: for 200 hourly samples that are 85 when the index modulo 20 is below 3 and 5
\* otherwise, the burst analysis counts at least one burst and reports is_bursty
C15_SpikesAreBursty ==
    (analysis # <<>> /\ SpikeScenario(metrics.cpu_utilization)) =>
        /\ analysis[1].burst.burst_count > 0
        /\ analysis[1].burst.is_bursty

\* the ten spikes of the series, each three hours long and seventeen times the
\* baseline, have been counted
C15_Witness ==
    /\ analysis # <<>>
    /\ SpikeScenario(metrics.cpu_utilization)
    /\ analysis[1].burst.burst_count = 10
    /\ analysis[1].burst.avg_burst_intensity = I(17)
    /\ analysis[1].burst.avg_burst_duration_minutes = I(180)
    /\ analysis[1].burst.is_bursty

\* a 24-point block repeated at least 3 times
RepeatedBlock(values) ==
    /\ Len(values) % 24 = 0
    /\ Len(values) >= 3 * 24
    /\ \A i \in 25..Len(values) : values[i] = values[i - 24]

\* C16: _detect_periodic_pattern returns True for every series that repeats a block
\* of 24 values at least 3 times
C16_RepeatedBlockIsPeriodic ==
    (/\ returned # <<>>
     /\ returned[1].of.method = "_detect_periodic_pattern"
     /\ RepeatedBlock(returned[1].of.values)) => returned[1].value

-----------------------------------------------------------------------------
(* Warnings and savings of classify.                                        *)

\* the elements of a list
Elements(q) == {q[i] : i \in 1..Len(q)}

\* the sample standard deviation of the values is above the limit (0 for fewer than
\* two values): n * sum(x^2) - sum(x)^2 > limit^2 * n * (n - 1)
SampleStddevAbove(values, limit) ==
    /\ Len(values) > 1
    /\ Len(values) * Sum([i \in 1..Len(values) |-> values[i] * values[i]])
          - Sum(values) * Sum(values)
       > limit * limit * Len(values) * (Len(values) - 1)

\* the average of the values is above the limit (no average without values)
AverageAbove(values, limit) ==
    /\ Len(values) > 0
    /\ Sum(values) > limit * Len(values)

\* C17: the warnings of classify hold the limited-data warning exactly when there
\* are fewer than 336 CPU samples, the variance warning exactly when fargate wins
\* and the CPU standard deviation is above 20, the memory warning exactly when
\* lambda wins and the average memory is above 60, the elastic-IP warning exactly
\* when spot wins and an elastic IP is attached, and nothing else
C17_Warnings ==
    result # <<>> =>
        LET warnings == Elements(result[1].warnings)
            winner   == result[1].classification
        IN  /\ "limited data points" \in warnings
                <=> Len(metrics.cpu_utilization) < 336
            /\ "moderate cpu variance" \in warnings
                <=> /\ winner = FARGATE_CANDIDATE
                    /\ SampleStddevAbove(ValuesOf(metrics.cpu_utilization), 20)
            /\ "memory may approach lambda limits" \in warnings
                <=> /\ winner = LAMBDA_CANDIDATE
                    /\ AverageAbove(ValuesOf(metrics.memory_utilization), 60)
            /\ "elastic ip detected" \in warnings
                <=> (winner = SPOT_CANDIDATE /\ metrics.has_elastic_ip)
            /\ warnings \subseteq
                  {"limited data points", "moderate cpu variance",
                   "memory may approach lambda limits", "elastic ip detected"}
            /\ Cardinality(warnings) = Len(result[1].warnings)

\* lambda wins on two samples with an average memory above 60: both the limited-data
\* and the memory warning, while the CPU deviation stays unmentioned
C17_Witness ==
    /\ result # <<>>
    /\ result[1].classification = LAMBDA_CANDIDATE
    /\ AverageAbove(ValuesOf(metrics.memory_utilization), 60)
    /\ result[1].warnings = <<"limited data points", "memory may approach lambda limits">>

\* the average of the values is below the limit (no average without values)
AverageBelow(values, limit) ==
    /\ Len(values) > 0
    /\ Sum(values) < limit * Len(values)

\* 0.8 times the share, in percent, of the values below 5, at most 80
IdleSavings(values) ==
    IF values = <<>> THEN I(0)
    ELSE RMin(Rat(80 * Cardinality({i \in 1..Len(values) : values[i] < 5}), Len(values)),
              I(80))

\* C18: a savings estimate of classify lies in [0, 80], and is min(0.8 * idle
\* percent, 80) when lambda wins; it is absent only when keep_ec2 wins with an
\* average CPU not below 20; and when keep_ec2 wins, an average CPU below 20 gives
\* a savings estimate with a downsizing target, an average above 80 no estimate but
\* an upsizing target, and anything else neither
C18_Savings ==
    result # <<>> =>
        LET savings == result[1].estimated_savings_percent
            target  == result[1].recommended_target
            winner  == result[1].classification
            cpu     == ValuesOf(metrics.cpu_utilization)
        IN  /\ savings # <<>> => (RGe(savings[1], I(0)) /\ RLe(savings[1], I(80)))
            /\ winner = LAMBDA_CANDIDATE =>
                  (savings # <<>> /\ REq(savings[1], IdleSavings(cpu)))
            /\ savings = <<>> => (winner = KEEP_EC2 /\ ~AverageBelow(cpu, 20))
            /\ winner = KEEP_EC2 =>
                  IF AverageBelow(cpu, 20)
                  THEN savings # <<>> /\ target = <<"Downsize " \o metrics.instance_type>>
                  ELSE IF AverageAbove(cpu, 80)
                  THEN /\ savings = <<>>
                       /\ target = <<"Consider upsizing " \o metrics.instance_type>>
                  ELSE savings = <<>> /\ target = <<>>

\* keep_ec2 has won with an average CPU above 80: upsizing advice without savings
C18_Witness ==
    /\ result # <<>>
    /\ result[1].classification = KEEP_EC2
    /\ AverageAbove(ValuesOf(metrics.cpu_utilization), 80)
    /\ result[1].estimated_savings_percent = <<>>
    /\ result[1].recommended_target = <<"Consider upsizing t3.medium">>

-----------------------------------------------------------------------------
(* Configuration.                                                           *)

\* the thresholds the two instances work with: the attributes _apply_config and
\* _apply_config_overrides assign, and the class attributes they never assign
ThresholdsInEffect ==
    [idle_threshold             |-> I(detector.IDLE_THRESHOLD_CPU),
     burst_multiplier           |-> I(detector.BURST_THRESHOLD_MULTIPLIER),
     min_burst_duration_minutes |-> I(MIN_BURST_DURATION_MINUTES),
     diurnal_significance       |-> DIURNAL_SIGNIFICANCE,
     memory_leak_threshold      |-> I(MEMORY_LEAK_THRESHOLD),
     lambda_max_avg_cpu         |-> I(classifier.LAMBDA_MAX_AVG_CPU),
     fargate_max_cpu_stddev     |-> I(classifier.FARGATE_MAX_CPU_STDDEV)]

\* the values the thresholds have without an override
DefaultThresholds ==
    [idle_threshold             |-> I(5),
     burst_multiplier           |-> I(2),
     min_burst_duration_minutes |-> I(5),
     diurnal_significance       |-> Rat(3, 2),
     memory_leak_threshold      |-> I(1),
     lambda_max_avg_cpu         |-> I(20),
     fargate_max_cpu_stddev     |-> I(25)]

\* C19: every threshold can be overridden through the config of the instance: a
\* threshold named in the config is the one in effect and the analysis follows it
\* (no burst shorter than an overridden minimum duration survives), and without a
\* config the defaults are in effect
C19_ThresholdsOverridable ==
    /\ \A key \in DOMAIN config \cap DOMAIN DefaultThresholds :
          ThresholdsInEffect[key] = I(config[key])
    /\ (analysis # <<>> /\ "min_burst_duration_minutes" \in DOMAIN config) =>
          \A k \in 1..Len(analysis[1].burst.burst_periods) :
              analysis[1].burst.burst_periods[k][2] - analysis[1].burst.burst_periods[k][1]
                  >= config["min_burst_duration_minutes"]
    /\ config = NoConfig => ThresholdsInEffect = DefaultThresholds

-----------------------------------------------------------------------------
(* The burst analysis, stated over the series itself.                       *)

\* the members of a set of numbers in ascending order
AscendingSeq(S) ==
    [k \in 1..Cardinality(S) |-> CHOOSE a \in S : Cardinality({b \in S : b < a}) = k - 1]

\* The bursts of a series under a threshold multiplier: one per maximal run of
\* samples strictly above max(multiplier * baseline, 20), the baseline being the
\* 25th percentile; a run lasts from its first sample to the first sample after it
\* (to the last sample of the series when it reaches the end), and the runs that
\* last less than 5 minutes are dropped.  For each surviving run, in order: the
\* index of its first sample, the index of the sample that closes it, its peak.
Bursts(series, multiplier) ==
    LET n         == Len(series)
        values    == ValuesOf(series)
        threshold == RMax(RMul(PatternDetector_percentile(values, 25), I(multiplier)),
                          I(20))
        above     == {i \in 1..n : RGt(I(values[i]), threshold)}
        starts    == {i \in above : i = 1 \/ (i - 1) \notin above}
        ends      == {i \in above : i = n \/ (i + 1) \notin above}
        EndOf(a)  == CHOOSE e \in ends : e >= a /\ \A f \in ends : f >= a => e <= f
        CloseOf(a) == IF EndOf(a) < n THEN EndOf(a) + 1 ELSE n
        surviving ==
            AscendingSeq({a \in starts :
                series[CloseOf(a)].timestamp - series[a].timestamp >= 5})
    IN  [k \in 1..Len(surviving) |->
            [first |-> surviving[k],
             close |-> CloseOf(surviving[k]),
             peak  |-> Max(SubSeq(values, surviving[k], EndOf(surviving[k])))]]

\* the mean gap between consecutive bursts is above one hour
MeanGapAboveHour(series, bursts) ==
    /\ Len(bursts) > 1
    /\ Sum([k \in 1..(Len(bursts) - 1) |->
                series[bursts[k + 1].first].timestamp - series[bursts[k].close].timestamp])
       > 60 * (Len(bursts) - 1)

\* the mean of peak / denominator over the bursts is above 2; a peak over a zero
\* denominator counts as above any number
MeanIntensityAbove2(bursts, denominator) ==
    \/ denominator[1] = 0
    \/ RGt(RDiv(I(Sum([k \in 1..Len(bursts) |-> bursts[k].peak])), denominator),
           I(2 * Len(bursts)))

\* C20 as stated: for every CPU series, burst_count is the number of runs above
\* max(2 * baseline, 20) that last at least 5 minutes, and is_bursty holds exactly
\* when at least 3 of them survive, their mean peak / baseline is above 2 and the
\* mean gap between them is above one hour
C20_BurstAnalysis ==
    (analysis # <<>> /\ detector.BURST_THRESHOLD_MULTIPLIER = 2) =>
        LET series == metrics.cpu_utilization
            bursts == Bursts(series, 2)
        IN  /\ analysis[1].burst.burst_count = Len(bursts)
            /\ analysis[1].burst.is_bursty
                <=> /\ Len(bursts) >= 3
                    /\ MeanIntensityAbove2(bursts,
                           PatternDetector_percentile(ValuesOf(series), 25))
                    /\ MeanGapAboveHour(series, bursts)

\* C20 as the code has it: a series of fewer than 10 samples has no bursts and is
\* not bursty; from 10 samples on, burst_count is the number of runs above
\* max(multiplier * baseline, 20) that last at least 5 minutes up to the sample that
\* closes them, and is_bursty holds exactly when at least 3 of them survive, their
\* mean peak / max(baseline, 1) is above 2 and the mean gap between them is above
\* one hour
C20_BurstAnalysisFromTenSamples ==
    analysis # <<>> =>
        LET series == metrics.cpu_utilization
            bursts == Bursts(series, detector.BURST_THRESHOLD_MULTIPLIER)
        IN  IF Len(series) < 10
            THEN analysis[1].burst.burst_count = 0 /\ ~analysis[1].burst.is_bursty
            ELSE /\ analysis[1].burst.burst_count = Len(bursts)
                 /\ \A k \in 1..Len(bursts) :
                       analysis[1].burst.burst_periods[k] =
                           <<series[bursts[k].first].timestamp,
                             series[bursts[k].close].timestamp, bursts[k].peak>>
                 /\ analysis[1].burst.is_bursty
                     <=> /\ Len(bursts) >= 3
                         /\ MeanIntensityAbove2(bursts,
                                RMax(PatternDetector_percentile(ValuesOf(series), 25),
                                     I(1)))
                         /\ MeanGapAboveHour(series, bursts)

\* 61 hourly samples with a spike every 20 hours: three bursts of three hours
\* survive, the single sample above the threshold that ends the series does not
C20_Witness ==
    /\ analysis # <<>>
    /\ Len(metrics.cpu_utilization) = 61
    /\ metrics.cpu_utilization[61].value = 85
    /\ analysis[1].burst.burst_count = 3
    /\ analysis[1].burst.is_bursty
    /\ analysis[1].burst.burst_periods[3] = <<2400, 2580, 85>>

-----------------------------------------------------------------------------
(* The idle periods, stated over the series itself.                         *)

\* the indices of the samples below the idle threshold of the detector
IdleIndices(series) ==
    {i \in 1..Len(series) : series[i].value < detector.IDLE_THRESHOLD_CPU}

\* the first samples of the maximal runs of idle samples, in ascending order
IdleRunStarts(series) ==
    AscendingSeq({i \in IdleIndices(series) : i = 1 \/ (i - 1) \notin IdleIndices(series)})

\* C21: idle_periods holds one interval per maximal run of samples below the idle
\* threshold, in ascending order of time, each starting at the timestamp of the
\* first sample of its run, none ending before it starts, none starting before the
\* one before it has ended, and the last one ending at the timestamp of the last
\* sample when the series ends idle
C21_IdlePeriods ==
    analysis # <<>> =>
        LET series  == metrics.cpu_utilization
            periods == analysis[1].idle.idle_periods
            starts  == IdleRunStarts(series)
        IN  /\ Len(periods) = Len(starts)
            /\ \A k \in 1..Len(periods) :
                  /\ periods[k][1] = series[starts[k]].timestamp
                  /\ periods[k][1] <= periods[k][2]
            /\ \A k \in 1..(Len(periods) - 1) : periods[k][2] <= periods[k + 1][1]
            /\ (series # <<>> /\ Len(series) \in IdleIndices(series)) =>
                  periods[Len(periods)][2] = series[Len(series)].timestamp

\* a series that starts busy and ends idle has been analysed: several idle periods,
\* the last of them closed at the last sample
C21_Witness ==
    /\ analysis # <<>>
    /\ Len(analysis[1].idle.idle_periods) >= 3
    /\ 1 \notin IdleIndices(metrics.cpu_utilization)
    /\ Len(metrics.cpu_utilization) \in IdleIndices(metrics.cpu_utilization)
    /\ analysis[1].idle.idle_periods[Len(analysis[1].idle.idle_periods)][2]
          = metrics.cpu_utilization[Len(metrics.cpu_utilization)].timestamp

-----------------------------------------------------------------------------
(* Daily means and their least-squares line, stated over the series itself. *)

\* the calendar days of the series, ascending
DaysOf(series) == AscendingSeq({DateOf(series[i].timestamp) : i \in 1..Len(series)})

\* the mean of the samples of one calendar day
DayMean(series, day) ==
    LET values == ValuesOf(SelectSeq(series, LAMBDA pt : DateOf(pt.timestamp) = day))
    IN  Rat(Sum(values), Len(values))

\* The ordinary least-squares line of the daily means y[0..n-1] against the day
\* index 0..n-1, for n >= 2:
\*   slope     = (n * sum(i * y[i]) - sum(i) * sum(y)) / (n * sum(i^2) - sum(i)^2)
\*   intercept = (sum(y) - slope * sum(i)) / n
OlsLine(series) ==
    LET days  == DaysOf(series)
        n     == Len(days)
        y     == [k \in 1..n |-> DayMean(series, days[k])]
        sy    == RSum(y)
        sxy   == RSum([k \in 1..n |-> RMul(I(k - 1), y[k])])
        sx    == Sum([k \in 1..n |-> k - 1])
        sxx   == Sum([k \in 1..n |-> (k - 1) * (k - 1)])
        slope == RDiv(RSub(RMul(I(n), sxy), RMul(I(sx), sy)), I(n * sxx - sx * sx))
    IN  [slope |-> slope, intercept |-> RDiv(RSub(sy, RMul(slope, I(sx))), I(n))]

\* C22 as stated: has_memory_leak holds exactly when the memory series spans at least
\* 3 calendar days and the least-squares slope of its daily means is above 1, and
\* the leak rate is then that slope
C22_MemoryLeak ==
    analysis # <<>> =>
        LET series == metrics.memory_utilization
            memory == analysis[1].memory
        IN  /\ memory.has_memory_leak
                <=> /\ Len(DaysOf(series)) >= 3
                    /\ RGt(OlsLine(series).slope, I(1))
            /\ memory.has_memory_leak =>
                  /\ memory.leak_rate_percent_per_day # <<>>
                  /\ REq(memory.leak_rate_percent_per_day[1], OlsLine(series).slope)

\* C22 as the code has it: has_memory_leak holds exactly when the memory series has
\* at least 48 samples, spans at least 3 calendar days and the least-squares slope
\* of its daily means is above 1, and the leak rate is then that slope
C22_MemoryLeakFrom48Samples ==
    analysis # <<>> =>
        LET series == metrics.memory_utilization
            memory == analysis[1].memory
        IN  /\ memory.has_memory_leak
                <=> /\ Len(series) >= 48
                    /\ Len(DaysOf(series)) >= 3
                    /\ RGt(OlsLine(series).slope, I(1))
            /\ memory.has_memory_leak =>
                  /\ memory.leak_rate_percent_per_day # <<>>
                  /\ REq(memory.leak_rate_percent_per_day[1], OlsLine(series).slope)

\* three days of hourly memory samples that rise by 2 a day: a leak of 2 per day
C22_Witness ==
    /\ analysis # <<>>
    /\ Len(metrics.memory_utilization) = 72
    /\ analysis[1].memory.has_memory_leak
    /\ analysis[1].memory.leak_rate_percent_per_day = <<I(2)>>

\* "growing" from a slope of 0.5 up, "declining" from -0.5 down, "stable" between
DirectionOf(slope) ==
    IF RGe(slope, Rat(1, 2)) THEN "growing"
    ELSE IF RLe(slope, Rat(-1, 2)) THEN "declining" ELSE "stable"

\* C23 as stated: for a CPU series that spans at least 3 calendar days the trend
\* direction follows the least-squares slope of the daily means (growing from 0.5,
\* declining from -0.5, stable between); for fewer than 3 days it is stable with
\* slope 0
C23_TrendDirection ==
    analysis # <<>> =>
        LET series == metrics.cpu_utilization
            trend  == analysis[1].trend
        IN  IF Len(DaysOf(series)) >= 3
            THEN trend.direction = DirectionOf(OlsLine(series).slope)
            ELSE trend.direction = "stable" /\ trend.slope_per_day = I(0)

\* C23 as the code has it: for a CPU series of at least 48 samples that spans at
\* least 3 calendar days the trend direction follows the least-squares slope of the
\* daily means, which is the slope reported; for fewer samples or fewer days it is
\* stable with slope 0
C23_TrendDirectionFrom48Samples ==
    analysis # <<>> =>
        LET series == metrics.cpu_utilization
            trend  == analysis[1].trend
        IN  IF Len(series) >= 48 /\ Len(DaysOf(series)) >= 3
            THEN /\ trend.direction = DirectionOf(OlsLine(series).slope)
                 /\ REq(trend.slope_per_day, OlsLine(series).slope)
            ELSE trend.direction = "stable" /\ trend.slope_per_day = I(0)

\* three days whose means fall by exactly half a unit a day: declining
C23_Witness ==
    /\ analysis # <<>>
    /\ Len(metrics.cpu_utilization) = 72
    /\ analysis[1].trend.slope_per_day = Rat(-1, 2)
    /\ analysis[1].trend.direction = "declining"

\* the value brought into [0, 100]
Clamped(value) == RMax(I(0), RMin(I(100), value))

\* the least-squares line of the daily means, at the given number of days after
\* the last day of the series
LineAfterLastDay(series, days) ==
    RAdd(RMul(OlsLine(series).slope, I(Len(DaysOf(series)) - 1 + days)),
         OlsLine(series).intercept)

\* C24: for CPU values within [0, 100] the predicted 30-day value lies in [0, 100],
\* and for a series that spans at least 3 calendar days it is the least-squares line
\* of the daily means 30 days after the last day of the series, clamped to [0, 100]
C24_Prediction ==
    (/\ analysis # <<>>
     /\ \A i \in 1..Len(metrics.cpu_utilization) :
           metrics.cpu_utilization[i].value \in 0..100) =>
        LET series    == metrics.cpu_utilization
            predicted == analysis[1].trend.predicted_30_day_value
        IN  /\ RGe(predicted, I(0))
            /\ RLe(predicted, I(100))
            /\ Len(DaysOf(series)) >= 3 =>
                  REq(predicted, Clamped(LineAfterLastDay(series, 30)))

-----------------------------------------------------------------------------
(* The periodicity check, stated over the values themselves.                *)

\* The Pearson correlation of the first window of length lag with the window at
\* offset k * lag, where it is a whole number: 1, -1, or 0 (which also stands for the
\* correlation with a window without variance); 2 stands for any other value.
WindowCorrelation(values, lag, k) ==
    LET c == _simple_correlation(SubSeq(values, 1, lag),
                                 SubSeq(values, k * lag + 1, (k + 1) * lag))
    IN  IF c.num = 0 THEN 0
        ELSE IF /\ ~FracLess(Abs(c.num), c.dx, c.dy, Abs(c.num))
                /\ ~FracLess(c.dy, Abs(c.num), Abs(c.num), c.dx)
             THEN (IF c.num > 0 THEN 1 ELSE -1)
        ELSE 2

\* the offsets, in windows, of the full windows after the first
LaterWindows(values, lag) == 1..((Len(values) \div lag) - 1)

\* every correlation the check could look at is a whole number
WholeCorrelations(values) ==
    \A lag \in {24, 168} : \A k \in LaterWindows(values, lag) :
        WindowCorrelation(values, lag, k) \in {-1, 0, 1}

\* the mean of the correlations of the first window with every later full window is
\* above 0.7, for a lag the series holds two full windows of
LagConfirmed(values, lag) ==
    /\ Len(values) >= 2 * lag
    /\ 10 * Sum([k \in LaterWindows(values, lag) |-> WindowCorrelation(values, lag, k)])
          > 7 * Cardinality(LaterWindows(values, lag))

\* C25: _detect_periodic_pattern returns False for fewer than 48 values and otherwise
\* True exactly when, for a lag of 24 or 168 of which the series holds two full
\* windows, the mean correlation of the first window with every later full window is
\* above 0.7 (checked for the series whose window correlations are whole numbers)
C25_PeriodicDetection ==
    (/\ returned # <<>>
     /\ returned[1].of.method = "_detect_periodic_pattern"
     /\ WholeCorrelations(returned[1].of.values)) =>
        returned[1].value
            <=> /\ Len(returned[1].of.values) >= 48
                /\ \E lag \in {24, 168} : LagConfirmed(returned[1].of.values, lag)

-----------------------------------------------------------------------------
(* The batch score.                                                         *)

\* bursts together with a daily or a weekly rhythm
BurstyAndPeriodic(burst, diurnal, weekly) ==
    burst.is_bursty /\ (diurnal.has_diurnal_pattern \/ weekly.has_weekly_pattern)

\* C26: when is_bursty holds together with a diurnal or a weekly pattern the batch
\* score is the bursty score plus 0.2, capped at 0.95, and strictly greater than the
\* bursty score, so that BURSTY is never the pattern selected; otherwise the batch
\* score is 0.
C26_BatchAboveBursty ==
    /\ primary # <<>> =>
        LET p == parts[1]
            scores == ScoresOf(p)
        IN  IF BurstyAndPeriodic(p.burst, p.diurnal, p.weekly)
            THEN /\ scores[BATCH] = RMin(RAdd(scores[BURSTY], Rat(2, 10)), Rat(95, 100))
                 /\ RGt(scores[BATCH], scores[BURSTY])
                 /\ primary[1][1] # BURSTY
            ELSE scores[BATCH] = I(0)
    /\ analysis # <<>> =>
        (BurstyAndPeriodic(analysis[1].burst, analysis[1].diurnal, analysis[1].weekly)
            => analysis[1].primary_pattern # BURSTY)

-----------------------------------------------------------------------------
(* The lowest best score of an analysis.                                    *)

\* the scores _determine_primary_pattern computed for the analysis returned
AnalysisScores ==
    PatternScores(analysis[1].idle, analysis[1].burst, analysis[1].diurnal,
                  analysis[1].weekly, analysis[1].trend)

\* C27: for every input to analyze one of the steady-state, diurnal, idle-dominant
\* and bursty scores is 0.5 or more, so the primary pattern returned is never ERRATIC
\* and the confidence returned is never below 0.5
C27_NeverErratic ==
    analysis # <<>> =>
        /\ \E key \in {STEADY_STATE, DIURNAL, IDLE_DOMINANT, BURSTY} :
                RGe(AnalysisScores[key], Rat(1, 2))
        /\ analysis[1].primary_pattern # ERRATIC
        /\ RGe(analysis[1].confidence, Rat(1, 2))

\* an analysis whose best score is exactly 0.5: neither idle nor bursty, and a
\* peak-to-trough ratio of exactly 1.5, at which the steady-state score no longer
\* applies and the diurnal pattern just does
C27_Witness ==
    /\ analysis # <<>>
    /\ ~analysis[1].idle.is_idle_dominant
    /\ ~analysis[1].burst.is_bursty
    /\ REq(analysis[1].diurnal.peak_to_trough_ratio, Rat(3, 2))
    /\ analysis[1].primary_pattern = DIURNAL
    /\ REq(analysis[1].confidence, Rat(1, 2))

-----------------------------------------------------------------------------
(* The idle percentage, as the classifier and as the detector compute it.   *)

\* C28: for every non-empty CPU series the cpu_idle_percent of the classifier's
\* statistics equals the idle_percent of the detector's idle analysis of the same
\* series, under the default configuration and under any override of the detector's
\* idle threshold
C28_IdlePercentAgrees ==
    metrics.cpu_utilization # <<>> =>
        /\ analysis # <<>> =>
              REq(analysis[1].idle.idle_percent,
                  get(_compute_statistics(metrics), "cpu_idle_percent", I(0)))
        /\ result # <<>> =>
              REq(get(result[1].metrics_summary, "cpu_idle_percent", I(0)),
                  _analyze_idle_pattern(detector, metrics.cpu_utilization).idle_percent)

-----------------------------------------------------------------------------
(* Ties for the highest score of classify.                                  *)

\* the four candidates of the snapshot classified, in the order classify lists them
ListedScores == CandidateScores(classifier, metrics, _compute_statistics(metrics))

\* the places, in that order, of the candidates that share the highest score
TiedForHighest ==
    {i \in 1..4 : \A j \in 1..4 : RLe(ListedScores[j].score, ListedScores[i].score)}

\* the classifications tied for the highest score, in the listed order, but the first
LaterTied ==
    LET later == SelectSeq(<<1, 2, 3, 4>>,
                           LAMBDA i : i \in TiedForHighest
                                      /\ \E j \in TiedForHighest : j < i)
    IN  [k \in 1..Len(later) |-> ListedScores[later[k]].classification]

\* the alternatives returned that share the highest score, in the order returned
TiedAlternatives ==
    LET tied == SelectSeq(result[1].alternative_classifications,
                          LAMBDA a : \E i \in TiedForHighest :
                                        ListedScores[i].classification = a[1])
    IN  [k \in 1..Len(tied) |-> tied[k][1]]

\* C29: when two or more candidates share the highest score the primary
\* classification is the tied candidate listed first (lambda, fargate, spot,
\* keep_ec2) and the other tied candidates appear among the alternatives in that
\* same relative order
C29_TiesKeepListedOrder ==
    (result # <<>> /\ Cardinality(TiedForHighest) >= 2) =>
        /\ \E i \in TiedForHighest :
              /\ \A j \in TiedForHighest : i <= j
              /\ result[1].classification = ListedScores[i].classification
        /\ TiedAlternatives = LaterTied

\* C29 with the filter on the alternatives: the primary classification is the tied
\* candidate listed first; the other tied candidates appear among the alternatives in
\* the listed order when the shared score is above 0.3, and none of them appears
\* when it is 0.3
C29_TiesAboveBaseKeepListedOrder ==
    (result # <<>> /\ Cardinality(TiedForHighest) >= 2) =>
        /\ \E i \in TiedForHighest :
              /\ \A j \in TiedForHighest : i <= j
              /\ result[1].classification = ListedScores[i].classification
              /\ IF RGt(ListedScores[i].score, Rat(3, 10))
                 THEN TiedAlternatives = LaterTied
                 ELSE TiedAlternatives = <<>>

\* a tie above 0.3 at the head of the list, the second of the pair first among the
\* alternatives
C29_Witness ==
    /\ result # <<>>
    /\ Cardinality(TiedForHighest) >= 2
    /\ RGt(result[1].confidence, Rat(3, 10))
    /\ result[1].classification # KEEP_EC2
    /\ Len(LaterTied) >= 1
    /\ result[1].alternative_classifications[1][1] = LaterTied[1]

-----------------------------------------------------------------------------
(* The range of the candidate scores.                                       *)

\* every series empty and every flag false
EmptySnapshot ==
    /\ \A field \in {"cpu_utilization", "memory_utilization", "network_in",
                     "network_out", "disk_read_ops", "disk_write_ops"} :
            metrics[field] = <<>>
    /\ ~metrics.has_elastic_ip
    /\ ~metrics.has_persistent_storage
    /\ ~metrics.in_auto_scaling_group

\* C30: each of the four candidate scores lies in [0, 1] and the keep_ec2 score is at
\* least 0.3, so the confidence classify returns is never below 0.3; a snapshot with
\* every series empty and every flag false is classified keep_ec2 with confidence 0.3
C30_ScoresInRange ==
    result # <<>> =>
        /\ \A i \in 1..4 : /\ RGe(ListedScores[i].score, I(0))
                           /\ RLe(ListedScores[i].score, I(1))
        /\ ListedScores[4].classification = KEEP_EC2
        /\ RGe(ListedScores[4].score, Rat(3, 10))
        /\ RGe(result[1].confidence, Rat(3, 10))
        /\ EmptySnapshot => /\ result[1].classification = KEEP_EC2
                            /\ REq(result[1].confidence, Rat(3, 10))

\* a snapshot on which both the floor and the cap act: persistent storage takes the
\* lambda score below 0, where it is floored, and every keep_ec2 bonus applies, which
\* takes its score to the cap
C30_Witness ==
    /\ result # <<>>
    /\ metrics.has_persistent_storage
    /\ metrics.has_elastic_ip
    /\ ListedScores[1].score = I(0)
    /\ Len(ListedScores[4].reasons) = 5
    /\ ListedScores[4].score = I(1)
    /\ result[1].classification = KEEP_EC2
    /\ result[1].confidence = I(1)

=============================================================================
